---- MODULE Spec2Model ----
(***************************************************************************)
(* A model of the Cortex AI folder organizer: the hybrid rule/LLM          *)
(* classifier (core/classifier.py), the plan builder (core/planner.py),    *)
(* the executor (core/executor.py) and the organize command (cli).         *)
(*                                                                         *)
(* Confidence values are counted in tenths: 10 stands for 1.0, 5 for 0.5.  *)
(* A data frame is a sequence of rows; the row index is the frame index.   *)
(***************************************************************************)
EXTENDS Integers, Sequences, FiniteSets, TLC

(***************************************************************************)
(* Bounds of the model.                                                    *)
(***************************************************************************)
MaxRows == 2
\* rows of a frame given to build_plan
MaxPlanRows == 4
\* rows of a plan given to apply_plan
MaxMoves == 3
\* files under the root given to the organize command
MaxScan == 3
\* calls of apply_plan on one tree
MaxRuns == 2
\* calls of write_move_log on one root
MaxLogCalls == 3
\* the time that passes over calls of write_move_log, in ticks
MaxClock == 4
\* records passed to one call of write_move_log
MaxLogRecords == 2
\* dots in the name of a scanned file
MaxDots == 2

(***************************************************************************)
(* Values.                                                                 *)
(***************************************************************************)
\* Python None in a string-valued cell (an object column of the frame).
None == "<None>"
\* A missing number: float('nan'), and None in a numeric cell (pandas reads
\* both as NaN once the column is cast with astype(float)).
NaN == 999
\* Raw JSON values of a "confidence" field that are not plain numbers.
NonNumeric == 998    \* a string such as "high", or null: float() raises
MissingField == 997  \* the key is absent: info.get(..., 0.0)
HugeInt == 996       \* an integer literal too large for a float
\* The "category" key is absent from an entry: info.get(..., "uncertain_review")
MissingCategory == "<missing>"
\* The "category" key holds JSON null
JsonNull == "<null>"

\* IEEE comparison: every comparison with NaN is false.
FLt(a, b) == a # NaN /\ b # NaN /\ a < b
FGt(a, b) == a # NaN /\ b # NaN /\ a > b

CATEGORIES ==
  << "school_work", "code_projects", "photos_images", "videos_media",
     "music_audio", "archives_installers", "documents_misc",
     "trash_or_temp", "uncertain_review" >>

CategorySet == { CATEGORIES[i] : i \in DOMAIN CATEGORIES }

DEFAULT_EXTENSION_MAP ==
  [ e \in { ".py", ".java", ".cpp", ".c", ".h", ".hpp", ".js", ".ts",
            ".ipynb" } |-> "code_projects" ] @@
  [ e \in { ".jpg", ".jpeg", ".png", ".heic", ".gif", ".tif", ".tiff" }
      |-> "photos_images" ] @@
  [ e \in { ".mov", ".mp4", ".mkv", ".avi" } |-> "videos_media" ] @@
  [ e \in { ".mp3", ".wav", ".flac", ".m4a" } |-> "music_audio" ] @@
  [ e \in { ".zip", ".tar", ".tar.gz", ".tgz", ".rar", ".dmg", ".pkg",
            ".exe" } |-> "archives_installers" ] @@
  [ e \in { ".pdf", ".doc", ".docx", ".ppt", ".pptx", ".xls", ".xlsx",
            ".txt", ".md" } |-> "documents_misc" ] @@
  [ e \in { ".tmp", ".log", ".ds_store" } |-> "trash_or_temp" ]

\* str.lower() on the extension strings the model uses.
LowerTable ==
  ".JPG" :> ".jpg" @@ ".PDF" :> ".pdf" @@ ".TXT" :> ".txt" @@
  ".DS_Store" :> ".ds_store"
Lower(s) == IF s \in DOMAIN LowerTable THEN LowerTable[s] ELSE s

(***************************************************************************)
(* State.                                                                  *)
(***************************************************************************)
VARIABLES
  cf_pc,          \* classify_files: "idle", "remote" (blocked in the remote
                  \* call), "done" (returned), "raised"
  cf_cols,        \* columns of the frame passed to classify_files
  cf_in,          \* the caller's frame
  min_confidence, \* the threshold argument, in tenths
  cf_df,          \* the working copy made by classify_files
  cf_rows,        \* rows_for_llm: the paths sent to the remote classifier
  cf_calls,       \* the batches passed to client.responses.create, in order
  cf_resp,        \* what the remote call produced
  cf_results,     \* the mapping returned by _llm_classify_files
  cf_ret,         \* the returned frame (<<>> while nothing was returned)
  cf_err,         \* the exception that left classify_files, or "none"
  api_key,        \* TRUE when OPENAI_API_KEY is set in the environment
  pl_pc,          \* build_plan: "idle", "done" (returned), "raised"
  pl_cols,        \* columns of the frame passed to build_plan
  pl_in,          \* the frame passed to build_plan
  pl_plan,        \* the PlanSummary returned
  pl_err,         \* the exception that left build_plan, or "none"
  ex_pc,          \* apply_plan: "idle", "loop" (in the loop over plan.df),
                  \* "done" (returned), "raised"
  ex_plan,        \* shape of the plan argument: "ok", "none" (plan is None),
                  \* "no_df" (plan.df is None)
  ex_cols,        \* columns of plan.df
  ex_df,          \* plan.df
  ex_i,           \* index of the next row of plan.df
  category_dir_failures, \* category -> reason, for this call
  move_records,   \* the MoveRecords appended so far
  ex_ret,         \* the returned moves frame and log path
  ex_err,         \* the exception that left apply_plan, or "none"
  ex_runs,        \* the calls of apply_plan made so far
  ex_tree0,       \* the files, directories and logs at the entry of the call
  mkdir_calls,    \* the categories whose directory this call tried to create
  fs_files,       \* paths of the files under the root
  fs_dirs,        \* directories directly under the root
  fs_blocked,     \* directories under the root that cannot be created
  fs_locked,      \* files that cannot be moved
  fs_logs,        \* move logs: path of the file -> its content
  log_fault,      \* how write_move_log fails: "none", "mkdir", "write"
  clock,          \* the current UTC time, in ticks of half a second
  lg_calls,       \* the calls of write_move_log so far: records, time, outcome
  org_pc,         \* the command: "start", "scan", "classify", "plan",
                  \* "prompt", "apply", "exited"
  org_cmd,        \* the command that runs: a member of Commands
  org_root,       \* what PATH names: "dir", "missing", "file"
  org_df,         \* the frame returned by scan_directory
  org_answer,     \* the line read at the confirmation prompt
  org_calls,      \* the pipeline stages invoked so far, in order
  org_end,        \* where the command ended: "running", "path_error",
                  \* "no_files", "classify_error", "plan_error", "declined",
                  \* "apply_error", "applied", "scanned", "crash"
  org_raised,     \* the exception that left the command function, or "none"
  org_exit,       \* the exit code of the process, -1 while it runs
  org_tree0       \* the files and directories under the root at the start

cfVars == << cf_pc, cf_cols, cf_in, min_confidence, cf_df, cf_rows, cf_calls,
             cf_resp, cf_results, cf_ret, cf_err, api_key >>

plVars == << pl_pc, pl_cols, pl_in, pl_plan, pl_err >>

exVars == << ex_pc, ex_plan, ex_cols, ex_df, ex_i, category_dir_failures,
             move_records, ex_ret, ex_err, ex_runs, ex_tree0, mkdir_calls >>

fsVars == << fs_files, fs_dirs, fs_blocked, fs_locked, fs_logs, log_fault,
             clock, lg_calls >>

orgVars == << org_pc, org_cmd, org_root, org_df, org_answer, org_calls,
              org_end, org_raised, org_exit, org_tree0 >>

vars == << cfVars, plVars, exVars, fsVars, orgVars >>

(***************************************************************************)
(* Paths and file names.  A name is its stem, the " (i)" counters appended *)
(* to the stem by collision resolution, and its final suffix.              *)
(***************************************************************************)
FileName(stem, suffix) == [stem |-> stem, ctrs |-> << >>, suffix |-> suffix]
PathOf(dir, name) == [dir |-> dir, name |-> name]

(***************************************************************************)
(* core/classifier.py                                                      *)
(***************************************************************************)
BaseColumns ==
  { "file_name", "extension", "full_path", "size_bytes", "modified_time" }
ClassColumns == { "category", "classifier_type", "confidence" }

\* Cells of a column the frame does not have.
AbsentCell == "<absent>"
AbsentNum == 995

MissingColumns(cols) == BaseColumns \ cols

\* the extension column is left as the caller gave it
NormalizeExtensions_NoLower(df) == df

\* df["extension"] = df["extension"].astype(str).str.lower()
NormalizeExtensions(df) ==
  [i \in DOMAIN df |-> [df[i] EXCEPT !.extension = Lower(@)]]

\* the three "if ... not in df.columns: df[...] = None"
InitColumns(df, cols) ==
  [i \in DOMAIN df |->
     [df[i] EXCEPT
        !.category = IF "category" \in cols THEN @ ELSE None,
        !.classifier_type = IF "classifier_type" \in cols THEN @ ELSE None,
        !.confidence = IF "confidence" \in cols THEN @ ELSE NaN]]

\* the loop over DEFAULT_EXTENSION_MAP.items(): every row whose extension
\* equals a key takes that key's category
RulePass(df) ==
  [i \in DOMAIN df |->
     IF df[i].extension \in DOMAIN DEFAULT_EXTENSION_MAP
       THEN [df[i] EXCEPT
               !.category = DEFAULT_EXTENSION_MAP[df[i].extension],
               !.classifier_type = "rule",
               !.confidence = 10]
       ELSE df[i]]

\* ambiguous_mask = df["category"].isna()
AmbiguousRows(df) == { i \in DOMAIN df : df[i].category = None }
AmbiguousPaths(df) == { df[i].full_path : i \in AmbiguousRows(df) }

\* float(confidence_raw) with the except (TypeError, ValueError) branch
ToFloat(raw) ==
  CASE raw = MissingField -> 0
    [] raw = NonNumeric -> 0
    [] OTHER -> raw

\* the two clamping ifs
Clamp(c) == IF FLt(c, 0) THEN 0 ELSE IF FGt(c, 10) THEN 10 ELSE c

\* float() of an integer beyond the float range raises OverflowError, which
\* the except clause does not name
ParseOverflows(entries) ==
  \E p \in DOMAIN entries :
     entries[p].isdict /\ entries[p].confidence = HugeInt

\* str(category): a string is itself, JSON null (Python None) is "None"
Str(v) == IF v = JsonNull THEN "None" ELSE v

\* the adapter replaces a label outside CATEGORIES itself
LlmParse_Normalizing(entries) ==
  [p \in { q \in DOMAIN entries : entries[q].isdict } |->
     [category |-> IF entries[p].category \in CategorySet
                     THEN entries[p].category ELSE "uncertain_review",
      confidence |-> Clamp(ToFloat(entries[p].confidence))]]

\* the loop over parsed.items(): entries that are not objects are skipped
LlmParse(entries) ==
  [p \in { q \in DOMAIN entries : entries[q].isdict } |->
     [category |-> IF entries[p].category = MissingCategory
                     THEN "uncertain_review" ELSE Str(entries[p].category),
      confidence |-> Clamp(ToFloat(entries[p].confidence))]]

\* a row without an entry in the mapping is passed over
MergeLlm_SkipMissing(df, results) ==
  [i \in DOMAIN df |->
     IF i \notin AmbiguousRows(df) \/ df[i].full_path \notin DOMAIN results
       THEN df[i]
       ELSE [df[i] EXCEPT
               !.category =
                  IF results[df[i].full_path].category \in CategorySet
                    THEN results[df[i].full_path].category
                    ELSE "uncertain_review",
               !.classifier_type = "llm",
               !.confidence = results[df[i].full_path].confidence]]

\* "Merge results back into df"
MergeLlm(df, results) ==
  [i \in DOMAIN df |->
     IF i \notin AmbiguousRows(df) THEN df[i]
     ELSE IF df[i].full_path \notin DOMAIN results
       THEN [df[i] EXCEPT !.category = "uncertain_review",
                          !.classifier_type = "llm",
                          !.confidence = 0]
       ELSE [df[i] EXCEPT
               !.category =
                  IF results[df[i].full_path].category \in CategorySet
                    THEN results[df[i].full_path].category
                    ELSE "uncertain_review",
               !.classifier_type = "llm",
               !.confidence = results[df[i].full_path].confidence]]

\* the assignment lands on a temporary selection and the frame keeps its
\* categories
ThresholdPass_OnCopy(df, minc) == df

\* the mask is built with <= and without the llm mask
ThresholdPass_Inclusive(df, minc) ==
  [i \in DOMAIN df |->
     IF df[i].confidence # NaN /\ df[i].confidence <= minc
       THEN [df[i] EXCEPT !.category = "uncertain_review"]
       ELSE df[i]]

\* "Apply min_confidence threshold for LLM classifications"
ThresholdPass(df, minc) ==
  [i \in DOMAIN df |->
     IF df[i].classifier_type = "llm" /\ FLt(df[i].confidence, minc)
       THEN [df[i] EXCEPT !.category = "uncertain_review"]
       ELSE df[i]]

\* the assignments land on the frame the caller passed
CallerFrame_InPlace(given, work) == work

\* df = df.copy(): the assignments that follow land on the copy, and the
\* frame of the caller keeps its cells
CallerFrame(given, work) == given

\* classify_files up to the remote call
Prepared(df, cols) == RulePass(InitColumns(NormalizeExtensions(df), cols))

NoResponse == [kind |-> "none", entries |-> << >>]

\* one request per file
RemoteBatches_PerFile(rows) ==
  LET p == CHOOSE q \in rows : TRUE IN << {p}, rows \ {p} >>

\* llm_results = _llm_classify_files(rows_for_llm): the requests made for a
\* non-empty rows_for_llm, one client.responses.create with every row
RemoteBatches(rows) == << rows >>

\* classify_files from its entry to its return, to a raise, or to the point
\* where _llm_classify_files blocks in client.responses.create
ClassifyCall ==
  /\ cf_pc = "idle"
  /\ IF MissingColumns(cf_cols) # {}
       THEN /\ cf_pc' = "raised"
            /\ cf_err' = "ClassificationError"
            /\ UNCHANGED << cf_in, cf_df, cf_rows, cf_calls, cf_ret >>
       ELSE LET df == Prepared(cf_in, cf_cols) IN
            /\ cf_df' = df
            /\ cf_in' = CallerFrame(cf_in, df)
            /\ cf_rows' = AmbiguousPaths(df)
            /\ IF AmbiguousRows(df) = {}
                 THEN /\ cf_pc' = "done"
                      /\ cf_ret' = ThresholdPass(df, min_confidence)
                      /\ cf_err' = "none"
                      /\ cf_calls' = cf_calls
                 ELSE IF ~api_key
                   THEN /\ cf_pc' = "raised"
                        /\ cf_err' = "MissingApiKeyError"
                        /\ cf_ret' = cf_ret
                        /\ cf_calls' = cf_calls
                   ELSE /\ cf_pc' = "remote"
                        /\ cf_calls' = cf_calls \o RemoteBatches(cf_rows')
                        /\ UNCHANGED << cf_ret, cf_err >>
  /\ UNCHANGED << cf_cols, min_confidence, cf_resp, cf_results, api_key >>
  /\ UNCHANGED << plVars, exVars, fsVars, orgVars >>

\* the error of the remote call is swallowed and an empty mapping returned
RemoteCallFails_Swallowed ==
  /\ cf_pc = "remote"
  /\ cf_pc' = "done"
  /\ cf_err' = "none"
  /\ cf_resp' = [kind |-> "error", entries |-> << >>]
  /\ cf_results' = << >>
  /\ cf_df' = MergeLlm(cf_df, << >>)
  /\ cf_ret' = ThresholdPass(cf_df', min_confidence)
  /\ UNCHANGED << cf_cols, cf_in, min_confidence, cf_rows, cf_calls,
                  api_key >>
  /\ UNCHANGED << plVars, exVars, fsVars, orgVars >>

\* client.responses.create raises: network error, timeout, API error
RemoteCallFails ==
  /\ cf_pc = "remote"
  /\ cf_pc' = "raised"
  /\ cf_err' = "LlmUnavailableError"
  /\ cf_resp' = [kind |-> "error", entries |-> << >>]
  /\ UNCHANGED << cf_cols, cf_in, min_confidence, cf_df, cf_rows, cf_calls,
                  cf_results, cf_ret, api_key >>
  /\ UNCHANGED << plVars, exVars, fsVars, orgVars >>

\* the call returns, but there is no output_text, or it is not JSON, or the
\* JSON is not an object
UnparseableKinds == { "no_output_text", "bad_json", "not_object" }

\* one try block around the call and the parsing: a bad payload is reported
\* as a failed call
RemoteReturnsUnparseable_OneTry ==
  /\ cf_pc = "remote"
  /\ \E k \in UnparseableKinds : cf_resp' = [kind |-> k, entries |-> << >>]
  /\ cf_pc' = "raised"
  /\ cf_err' = "LlmUnavailableError"
  /\ UNCHANGED << cf_cols, cf_in, min_confidence, cf_df, cf_rows, cf_calls,
                  cf_results, cf_ret, api_key >>
  /\ UNCHANGED << plVars, exVars, fsVars, orgVars >>

RemoteReturnsUnparseable ==
  /\ cf_pc = "remote"
  /\ \E k \in UnparseableKinds : cf_resp' = [kind |-> k, entries |-> << >>]
  /\ cf_pc' = "raised"
  /\ cf_err' = "LlmResponseParseError"
  /\ UNCHANGED << cf_cols, cf_in, min_confidence, cf_df, cf_rows, cf_calls,
                  cf_results, cf_ret, api_key >>
  /\ UNCHANGED << plVars, exVars, fsVars, orgVars >>

\* Values of one entry of the returned JSON object.
RawCategories == { "school_work", "bogus", JsonNull, MissingCategory }
RawConfidences == { -2, 5, 12, NaN, NonNumeric, MissingField, HugeInt }
NotAnObject ==
  [isdict |-> FALSE, category |-> MissingCategory, confidence |-> MissingField]
RawEntries ==
  { NotAnObject } \cup
  [isdict : {TRUE}, category : RawCategories, confidence : RawConfidences]

\* the call returns a JSON object; parse, merge, threshold, return
RemoteReturnsObject ==
  /\ cf_pc = "remote"
  /\ \E D \in SUBSET cf_rows : \E entries \in [D -> RawEntries] :
       /\ cf_resp' = [kind |-> "object", entries |-> entries]
       /\ IF ParseOverflows(entries)
            THEN /\ cf_pc' = "raised"
                 /\ cf_err' = "OverflowError"
                 /\ UNCHANGED << cf_df, cf_results, cf_ret >>
            ELSE /\ cf_pc' = "done"
                 /\ cf_err' = "none"
                 /\ cf_results' = LlmParse(entries)
                 /\ cf_df' = MergeLlm(cf_df, cf_results')
                 /\ cf_ret' = ThresholdPass(cf_df', min_confidence)
  /\ UNCHANGED << cf_cols, cf_in, min_confidence, cf_rows, cf_calls,
                  api_key >>
  /\ UNCHANGED << plVars, exVars, fsVars, orgVars >>

(***************************************************************************)
(* Inputs of classify_files: a frame of up to MaxRows rows.                *)
(***************************************************************************)
Extensions == { ".pdf", ".JPG", ".xyz" }
\* 12 stands for a threshold above 1.0, which the code does not reject
Thresholds == { 0, 5, 10, 12 }
Stems == << "f1", "f2", "f3", "f4" >>
\* Cells of the classification columns a caller's frame may already carry.
PriorCells ==
  { [category |-> None, classifier_type |-> None, confidence |-> NaN],
    [category |-> "bogus", classifier_type |-> None, confidence |-> NaN],
    [category |-> "music_audio", classifier_type |-> "llm", confidence |-> 3],
    [category |-> None, classifier_type |-> "llm", confidence |-> 3] }
AbsentCells ==
  [category |-> AbsentCell, classifier_type |-> AbsentCell,
   confidence |-> AbsentNum]

InputRow(i, ext, prior) ==
  [file_name |-> FileName(Stems[i], ext),
   extension |-> ext,
   full_path |-> PathOf("inbox", FileName(Stems[i], ext)),
   size_bytes |-> i,
   category |-> prior.category,
   classifier_type |-> prior.classifier_type,
   confidence |-> prior.confidence]

\* cf_in is a frame of n rows with the columns cols
IsInputFrame(n, cols) ==
  \E e \in [1..n -> Extensions] :
    \E c \in [1..n -> IF ClassColumns \subseteq cols
                        THEN PriorCells ELSE {AbsentCells}] :
      cf_in = [i \in 1..n |-> InputRow(i, e[i], c[i])]

InputColumns ==
  { BaseColumns, BaseColumns \cup ClassColumns, BaseColumns \ {"extension"} }

ClassifyInputs ==
  /\ cf_pc = "idle"
  /\ cf_cols \in InputColumns
  /\ \E n \in 0..MaxRows : IsInputFrame(n, cf_cols)
  /\ min_confidence \in Thresholds
  /\ api_key \in BOOLEAN
  /\ cf_df = << >>
  /\ cf_rows = {}
  /\ cf_calls = << >>
  /\ cf_resp = NoResponse
  /\ cf_results = << >>
  /\ cf_ret = << >>
  /\ cf_err = "none"

(***************************************************************************)
(* core/planner.py                                                         *)
(***************************************************************************)
PlanColumns == BaseColumns \cup ClassColumns
PlanMissingColumns(cols) == PlanColumns \ cols

NoPlan ==
  [df |-> << >>, categories |-> << >>, total_files |-> 0,
   total_size |-> 0, num_uncertain |-> 0]

RECURSIVE SumSize(_, _)
\* df["size_bytes"].sum() over the rows of index set S, in bytes
SumSize(df, S) ==
  IF S = {} THEN 0
  ELSE LET i == CHOOSE j \in S : TRUE IN
       df[i].size_bytes + SumSize(df, S \ {i})

RECURSIVE SumConfidence(_, _)
SumConfidence(df, S) ==
  IF S = {} THEN 0
  ELSE LET i == CHOOSE j \in S : TRUE IN
       df[i].confidence + SumConfidence(df, S \ {i})

\* the rows of the grouped frame: df.dropna(subset=["category"])
GroupedRows(df) == { i \in DOMAIN df : df[i].category # None }

\* grouped.get_group(cat)
GroupOf(df, cat) == { i \in GroupedRows(df) : df[i].category = cat }

\* grouped.groups.keys(): with sort=False, the categories in the order of
\* their first row
RECURSIVE GroupKeysFrom(_, _, _)
GroupKeysFrom(df, i, seen) ==
  IF i > Len(df) THEN << >>
  ELSE IF df[i].category = None \/ df[i].category \in seen
    THEN GroupKeysFrom(df, i + 1, seen)
    ELSE << df[i].category >>
           \o GroupKeysFrom(df, i + 1, seen \cup {df[i].category})
GroupKeys(df) == GroupKeysFrom(df, 1, {})

\* Order of file names as strings.  The stems of the model have one length,
\* so names compare by stem, then by the text after the stem: a " (i)"
\* counter sorts before the "." of the suffix, counters by their digit.
StringRank ==
  "f1" :> 1 @@ "f2" :> 2 @@ "f3" :> 3 @@ "f4" :> 4 @@
  ".JPG" :> 1 @@ ".PDF" :> 2 @@ ".TXT" :> 3 @@ ".jpg" :> 4 @@ ".pdf" :> 5 @@
  ".txt" :> 6 @@ ".xyz" :> 7
RECURSIVE CtrsLess(_, _)
CtrsLess(a, b) ==
  IF a = << >> THEN FALSE
  ELSE IF b = << >> THEN TRUE
  ELSE IF Head(a) # Head(b) THEN Head(a) < Head(b)
  ELSE CtrsLess(Tail(a), Tail(b))
NameLess(a, b) ==
  IF a.stem # b.stem THEN StringRank[a.stem] < StringRank[b.stem]
  ELSE IF a.ctrs # b.ctrs THEN CtrsLess(a.ctrs, b.ctrs)
  ELSE StringRank[a.suffix] < StringRank[b.suffix]

\* the names are taken in the order of the rows
RECURSIVE SortedNames_RowOrder(_, _)
SortedNames_RowOrder(df, S) ==
  IF S = {} THEN << >>
  ELSE LET i == CHOOSE j \in S : \A k \in S : j <= k
       IN << df[i].file_name >> \o SortedNames_RowOrder(df, S \ {i})

\* group.sort_values("file_name")["file_name"] as a list
RECURSIVE SortedNames(_, _)
SortedNames(df, S) ==
  IF S = {} THEN << >>
  ELSE LET i == CHOOSE j \in S :
                  \A k \in S : ~NameLess(df[k].file_name, df[j].file_name)
       IN << df[i].file_name >> \o SortedNames(df, S \ {i})

\* .head(3)
Head3(q) == SubSeq(q, 1, IF Len(q) < 3 THEN Len(q) ELSE 3)

\* _make_summary_for_category, for a category that has a group
MakeSummary(df, cat) ==
  LET group == GroupOf(df, cat)
      withConf == { i \in group : df[i].confidence # NaN }
  IN [category |-> cat,
      file_count |-> Cardinality(group),
      total_size |-> SumSize(df, group),
      \* avg_confidence is conf_sum / conf_n, and None when conf_n = 0
      conf_sum |-> SumConfidence(df, withConf),
      conf_n |-> Cardinality(withConf),
      sample_files |-> Head3(SortedNames(df, group))]

IsPresentCategory(df, cat) == GroupOf(df, cat) # {}

\* "First, use known categories in a friendly, stable order."
KnownCategories(df) ==
  LET present(c) == IsPresentCategory(df, c) IN SelectSeq(CATEGORIES, present)

\* "Then, handle any unexpected categories"
UnexpectedCategories(df) ==
  LET unexpected(c) == c \notin CategorySet IN SelectSeq(GroupKeys(df), unexpected)

\* one loop over grouped.groups.keys()
PlannedCategories_GroupOrder(df) == GroupKeys(df)

PlannedCategories(df) == KnownCategories(df) \o UnexpectedCategories(df)

BuildPlan(df) ==
  [df |-> df,
   categories |->
     [k \in DOMAIN PlannedCategories(df) |->
        MakeSummary(df, PlannedCategories(df)[k])],
   total_files |-> Len(df),
   \* in bytes; total_size_mb divides this by 1024 * 1024
   total_size |-> SumSize(df, DOMAIN df),
   num_uncertain |->
     Cardinality({ i \in DOMAIN df : df[i].category = "uncertain_review" })]

\* build_plan, from entry to return or raise
BuildPlanCall ==
  /\ pl_pc = "idle"
  /\ IF PlanMissingColumns(pl_cols) # {}
       THEN /\ pl_pc' = "raised"
            /\ pl_err' = "ClassificationError"
            /\ pl_plan' = pl_plan
       ELSE /\ pl_pc' = "done"
            /\ pl_err' = "none"
            /\ pl_plan' = BuildPlan(pl_in)
  /\ UNCHANGED << pl_cols, pl_in >>
  /\ UNCHANGED << cfVars, exVars, fsVars, orgVars >>

(***************************************************************************)
(* Inputs of build_plan: a frame of up to MaxPlanRows rows.                *)
(***************************************************************************)
\* The files a frame may list: name, size, and how they were classified.
PlanFiles ==
  { [file_name |-> FileName("f1", ".pdf"), size_bytes |-> 1,
     classifier_type |-> "rule", confidence |-> 10],
    [file_name |-> FileName("f2", ".xyz"), size_bytes |-> 2,
     classifier_type |-> "llm", confidence |-> 5],
    [file_name |-> FileName("f3", ".xyz"), size_bytes |-> 4,
     classifier_type |-> None, confidence |-> NaN] }
PlanCategories == { "photos_images", "documents_misc", "bogus", None }

PlanRow(f, cat) ==
  [file_name |-> f.file_name,
   extension |-> f.file_name.suffix,
   full_path |-> PathOf("inbox", f.file_name),
   size_bytes |-> f.size_bytes,
   category |-> cat,
   classifier_type |-> f.classifier_type,
   confidence |-> f.confidence]

\* pl_in is a frame of n rows
IsPlanFrame(n) ==
  \E f \in [1..n -> PlanFiles] : \E c \in [1..n -> PlanCategories] :
    pl_in = [i \in 1..n |-> PlanRow(f[i], c[i])]

PlanInputColumns == { PlanColumns, PlanColumns \ {"category"} }

PlanInputs ==
  /\ pl_pc = "idle"
  /\ pl_cols \in PlanInputColumns
  /\ \E n \in 0..MaxPlanRows : IsPlanFrame(n)
  /\ pl_plan = NoPlan
  /\ pl_err = "none"

(***************************************************************************)
(* core/executor.py: values and helpers                                    *)
(***************************************************************************)
ExecColumns ==
  { "file_name", "full_path", "category", "classifier_type", "confidence" }
ExecMissingColumns(cols) == ExecColumns \ cols

DEFAULT_LOG_DIRNAME == ".organizer"

StatusSuccess == "success"
StatusSkipped == "skipped: already in target"
StatusNoSource == "failed: source file not found"
\* the text of the exception raised by mkdir, and by shutil.move
MkdirReason == "could not create target directory"
MkdirReasonFull == "could not create target directory: no space left"
\* str(exc) for the directory mkdir cannot create: the tree refuses the
\* directory of uncertain_review for lack of space, any other for its mode
MkdirError(d) ==
  IF d = "uncertain_review" THEN MkdirReasonFull ELSE MkdirReason
MoveReason == "permission denied"
\* f"failed: {reason}"
Failed(reason) ==
  CASE reason = MkdirReason -> "failed: could not create target directory"
    [] reason = MkdirReasonFull ->
         "failed: could not create target directory: no space left"
    [] OTHER -> "failed: permission denied"
IsFailed(status) ==
  status \in { StatusNoSource, Failed(MkdirReason), Failed(MkdirReasonFull),
               Failed(MoveReason) }

\* category = str(category_raw) if category_raw not in (None, "", "nan")
\*            else "uncertain_review"
ExecCategory(raw) ==
  IF raw \in { None, "", "nan" } THEN "uncertain_review" ELSE raw

\* Directories under the root that are symbolic links to a category
\* directory.
Symlinks ==
  "docs_link" :> "documents_misc" @@ "review_link" :> "uncertain_review"
LinkTo(category) == CHOOSE l \in DOMAIN Symlinks : Symlinks[l] = category

\* path.resolve(): the location the path leads to
Resolve(path) ==
  IF path.dir \in DOMAIN Symlinks
    THEN [path EXCEPT !.dir = Symlinks[path.dir]] ELSE path

\* path.exists()
Exists(files, path) == Resolve(path) \in files

\* the paths are compared as they are written
SameLocation_Unresolved(a, b) == a = b

\* old_path.resolve() == new_path.resolve()
SameLocation(a, b) == Resolve(a) = Resolve(b)

\* mkdir refuses a directory that exists
MkdirFails_NoExistOk(dirs, blocked, d) == d \in dirs \/ d \in blocked

\* target_dir.mkdir(parents=True, exist_ok=True) raises: the directory is not
\* there and cannot be created
MkdirFails(dirs, blocked, d) == d \notin dirs /\ d \in blocked

\* Source directories that are read-only: a file in one can be read and
\* copied, but neither renamed away nor unlinked.  A locked file anywhere
\* else cannot be read either.
ReadOnlyDirs == { "d2" }

\* the tree a failed shutil.move(src, dst) leaves.  shutil.move tries
\* os.rename and, when that raises OSError, copies src to dst and unlinks
\* src: in a read-only directory the rename and the unlink raise and the
\* copy between them is made, so the file is at both places
MoveFailureLeaves(files, src, dst) ==
  IF src.dir \in ReadOnlyDirs THEN files \cup {dst} ELSE files

\* parent / f"{stem} ({i}){suffix}"
Candidate(path, i) ==
  [path EXCEPT !.name.ctrs = Append(@, i)]

RECURSIVE Probe(_, _, _)
\* the while loop of _resolve_collision, entered with counter i
Probe(files, path, i) ==
  IF ~Exists(files, Candidate(path, i)) THEN Candidate(path, i)
  ELSE Probe(files, path, i + 1)

\* the first candidate is taken without looking
ResolveCollision_NoProbe(files, path) ==
  IF ~Exists(files, path) THEN path ELSE Candidate(path, 1)

\* _resolve_collision
ResolveCollision(files, path) ==
  IF ~Exists(files, path) THEN path ELSE Probe(files, path, 1)

\* every short-circuited record carries one fixed text
CachedStatus_Generic(failures, category) == Failed(MkdirReason)

\* reason = category_dir_failures[category]; status = f"failed: {reason}"
CachedStatus(failures, category) == Failed(failures[category])

\* _append_move: classifier_type None is recorded as "rule"
MoveRecord(row, category, new_path, status) ==
  [file_name |-> row.file_name,
   old_path |-> row.full_path,
   new_path |-> new_path,
   category |-> category,
   classifier_type |->
     IF row.classifier_type = None THEN "rule" ELSE row.classifier_type,
   confidence |-> row.confidence,
   status |-> status]

\* failed and skipped rows leave no record
AppendMove_SuccessOnly(records, record) ==
  IF record.status = StatusSuccess THEN Append(records, record) ELSE records

\* _append_move: record_list.append(record)
AppendMove(records, record) == Append(records, record)

(***************************************************************************)
(* core/logger.py                                                          *)
(***************************************************************************)
DEFAULT_LOG_SUBDIR == "logs"

\* the columns list of write_move_log
LogColumns ==
  << "file_name", "old_path", "new_path", "category", "classifier_type",
     "confidence", "status" >>

TicksPerSecond == 2
\* datetime.now(timezone.utc).strftime("%Y%m%d_%H%M%SZ"): the time, cut to
\* the whole second
Timestamp(t) == t \div TicksPerSecond

\* the file name carries no timestamp
LogPath_Fixed(t) ==
  [dir |-> << DEFAULT_LOG_DIRNAME, DEFAULT_LOG_SUBDIR >>, ts |-> 0]

\* root_path / log_dirname / log_subdir / f"{filename_prefix}_{ts}.csv"
LogPath(t) ==
  [dir |-> << DEFAULT_LOG_DIRNAME, DEFAULT_LOG_SUBDIR >>, ts |-> Timestamp(t)]

NoPath == [dir |-> << >>, ts |-> -1]

\* one row of pd.DataFrame(rows, columns=columns): the cells of a record in
\* the order of the columns
LogRow(r) == [k \in DOMAIN LogColumns |-> r[LogColumns[k]]]

\* the rows are written last record first
LogFile_Reversed(records) ==
  [header |-> LogColumns,
   rows |-> [k \in DOMAIN records |->
               LogRow(records[Len(records) + 1 - k])]]

\* the content df.to_csv(log_path, index=False) writes: the header, then a
\* row per record
LogFile(records) ==
  [header |-> LogColumns,
   rows |-> [k \in DOMAIN records |-> LogRow(records[k])]]

\* a file that was opened for writing and never filled
TruncatedFile == [header |-> << >>, rows |-> << >>]

\* the file at path is created, or replaced when it exists
WriteCsv(logs, path, file) ==
  [q \in DOMAIN logs \cup {path} |-> IF q = path THEN file ELSE logs[q]]

LogCall(records, t, raised) ==
  [records |-> records, at |-> t, raised |-> raised, path |-> LogPath(t)]

\* write_move_log(records, root_path): its effect on the tree, and its
\* outcome as the last entry of lg_calls
WriteMoveLog(records) ==
  IF log_fault = "mkdir"
    THEN /\ lg_calls' = Append(lg_calls, LogCall(records, clock, TRUE))
         /\ UNCHANGED << fs_dirs, fs_logs >>
  ELSE IF log_fault = "write"
    THEN /\ lg_calls' = Append(lg_calls, LogCall(records, clock, TRUE))
         /\ fs_dirs' = fs_dirs \cup {DEFAULT_LOG_DIRNAME}
         /\ \/ fs_logs' = fs_logs
            \/ fs_logs' = WriteCsv(fs_logs, LogPath(clock), TruncatedFile)
  ELSE /\ lg_calls' = Append(lg_calls, LogCall(records, clock, FALSE))
       /\ fs_dirs' = fs_dirs \cup {DEFAULT_LOG_DIRNAME}
       /\ fs_logs' = WriteCsv(fs_logs, LogPath(clock), LogFile(records))

(***************************************************************************)
(* core/executor.py: apply_plan                                            *)
(***************************************************************************)
\* the files, directories and logs under the root
Tree == [files |-> fs_files, dirs |-> fs_dirs, logs |-> fs_logs]

\* what the caller holds while apply_plan has not returned
NoReturn == [moves |-> << >>, log_path |-> NoPath]

\* the log directory is prepared before the plan is looked at
ApplyStart_LogDirFirst ==
  /\ ex_pc = "idle"
  /\ ex_runs' = ex_runs + 1
  /\ ex_tree0' = Tree
  /\ fs_dirs' = fs_dirs \cup {DEFAULT_LOG_DIRNAME}
  /\ IF ex_plan # "ok" \/ ExecMissingColumns(ex_cols) # {}
       THEN /\ ex_pc' = "raised"
            /\ ex_err' = "FileMoveError"
            /\ UNCHANGED << ex_i, category_dir_failures, move_records,
                            mkdir_calls >>
       ELSE /\ ex_pc' = "loop"
            /\ ex_i' = 1
            /\ category_dir_failures' = << >>
            /\ move_records' = << >>
            /\ mkdir_calls' = << >>
            /\ ex_err' = "none"
  /\ ex_ret' = NoReturn
  /\ UNCHANGED << ex_plan, ex_cols, ex_df >>
  /\ UNCHANGED << fs_files, fs_blocked, fs_locked, fs_logs, log_fault, clock,
                  lg_calls >>
  /\ UNCHANGED << cfVars, plVars, orgVars >>

\* apply_plan from its entry to the loop over plan.df
ApplyStart ==
  /\ ex_pc = "idle"
  /\ ex_runs' = ex_runs + 1
  /\ ex_tree0' = Tree
  /\ IF ex_plan # "ok" \/ ExecMissingColumns(ex_cols) # {}
       THEN /\ ex_pc' = "raised"
            /\ ex_err' = "FileMoveError"
            /\ UNCHANGED << ex_i, category_dir_failures, move_records,
                            mkdir_calls >>
       ELSE /\ ex_pc' = "loop"
            /\ ex_i' = 1
            /\ category_dir_failures' = << >>
            /\ move_records' = << >>
            /\ mkdir_calls' = << >>
            /\ ex_err' = "none"
  /\ ex_ret' = NoReturn
  /\ UNCHANGED << ex_plan, ex_cols, ex_df >>
  /\ UNCHANGED << cfVars, plVars, fsVars, orgVars >>

\* one iteration of "for _, row in df.iterrows()"
ApplyRow ==
  /\ ex_pc = "loop"
  /\ ex_i <= Len(ex_df)
  /\ LET row == ex_df[ex_i]
         category == ExecCategory(row.category)
         old_path == row.full_path
         new_path == PathOf(category, old_path.name)
         final == ResolveCollision(fs_files, new_path)
     IN
     IF category \in DOMAIN category_dir_failures
       THEN /\ move_records' =
                 AppendMove(move_records,
                             MoveRecord(row, category, new_path,
                                   CachedStatus(category_dir_failures,
                                                category)))
            /\ UNCHANGED << category_dir_failures, fs_files, fs_dirs,
                            mkdir_calls >>
     ELSE
       /\ mkdir_calls' = Append(mkdir_calls, category)
       /\ IF MkdirFails(fs_dirs, fs_blocked, category)
            THEN LET reason == MkdirError(category) IN
                   /\ category_dir_failures' =
                        category_dir_failures @@ (category :> reason)
                   /\ move_records' =
                        AppendMove(move_records,
                                   MoveRecord(row, category, new_path,
                                              Failed(reason)))
                   /\ UNCHANGED << fs_files, fs_dirs >>
          ELSE
            /\ fs_dirs' = fs_dirs \cup {category}
            /\ UNCHANGED category_dir_failures
            /\ IF ~Exists(fs_files, old_path)
                 THEN /\ move_records' =
                           AppendMove(move_records,
                                  MoveRecord(row, category, new_path,
                                             StatusNoSource))
                      /\ UNCHANGED fs_files
               ELSE IF SameLocation(old_path, new_path)
                 THEN /\ move_records' =
                           AppendMove(move_records,
                                  MoveRecord(row, category, new_path,
                                             StatusSkipped))
                      /\ UNCHANGED fs_files
               ELSE IF Resolve(old_path) \in fs_locked
                 THEN /\ move_records' =
                           AppendMove(move_records,
                                  MoveRecord(row, category, final,
                                             Failed(MoveReason)))
                      /\ fs_files' =
                           MoveFailureLeaves(fs_files, Resolve(old_path),
                                             final)
               ELSE /\ move_records' =
                         AppendMove(move_records,
                                  MoveRecord(row, category, final,
                                             StatusSuccess))
                    /\ fs_files' =
                         (fs_files \ {Resolve(old_path)}) \cup {final}
  /\ ex_i' = ex_i + 1
  /\ UNCHANGED << ex_pc, ex_plan, ex_cols, ex_df, ex_ret, ex_err, ex_runs,
                  ex_tree0 >>
  /\ UNCHANGED << fs_blocked, fs_locked, fs_logs, log_fault, clock,
                  lg_calls >>
  /\ UNCHANGED << cfVars, plVars, orgVars >>

\* a failed write of the log is passed over and the moves are returned
ApplyWriteLog_Lenient ==
  /\ ex_pc = "loop"
  /\ ex_i > Len(ex_df)
  /\ WriteMoveLog(move_records)
  /\ LET call == lg_calls'[Len(lg_calls')] IN
     /\ ex_pc' = "done"
     /\ ex_ret' = [moves |-> move_records,
                   log_path |-> IF call.raised THEN NoPath ELSE call.path]
     /\ ex_err' = "none"
  /\ UNCHANGED << ex_plan, ex_cols, ex_df, ex_i, category_dir_failures,
                  move_records, ex_runs, ex_tree0, mkdir_calls >>
  /\ UNCHANGED << fs_files, fs_blocked, fs_locked, log_fault, clock >>
  /\ UNCHANGED << cfVars, plVars, orgVars >>

\* after the loop: write_move_log, then return
ApplyWriteLog ==
  /\ ex_pc = "loop"
  /\ ex_i > Len(ex_df)
  /\ WriteMoveLog(move_records)
  /\ LET call == lg_calls'[Len(lg_calls')] IN
     IF call.raised
       THEN /\ ex_pc' = "raised"
            /\ ex_err' = "LoggingError"
            /\ UNCHANGED ex_ret
       ELSE /\ ex_pc' = "done"
            /\ ex_ret' = [moves |-> move_records, log_path |-> call.path]
            /\ ex_err' = "none"
  /\ UNCHANGED << ex_plan, ex_cols, ex_df, ex_i, category_dir_failures,
                  move_records, ex_runs, ex_tree0, mkdir_calls >>
  /\ UNCHANGED << fs_files, fs_blocked, fs_locked, log_fault, clock >>
  /\ UNCHANGED << cfVars, plVars, orgVars >>

\* the log directory stops being writable while apply_plan runs; the fault is
\* met where the log is written
LogFaultArises ==
  /\ ex_pc = "loop"
  /\ ex_i > Len(ex_df)
  /\ log_fault = "none"
  /\ log_fault' \in { "mkdir", "write" }
  /\ UNCHANGED << fs_files, fs_dirs, fs_blocked, fs_locked, fs_logs, clock,
                  lg_calls >>
  /\ UNCHANGED << cfVars, plVars, exVars, orgVars >>

\* apply_plan has returned and the caller applies the same plan to the tree
\* once more, a tick later
ApplyAgain ==
  /\ ex_pc = "done"
  /\ ex_runs < MaxRuns
  /\ ex_pc' = "idle"
  /\ clock' = clock + 1
  /\ UNCHANGED << ex_plan, ex_cols, ex_df, ex_i, category_dir_failures,
                  move_records, ex_ret, ex_err, ex_runs, ex_tree0,
                  mkdir_calls >>
  /\ UNCHANGED << fs_files, fs_dirs, fs_blocked, fs_locked, fs_logs,
                  log_fault, lg_calls >>
  /\ UNCHANGED << cfVars, plVars, orgVars >>

(***************************************************************************)
(* Inputs of apply_plan: a plan of up to MaxMoves rows over a small tree.  *)
(* Row i names the file f1.txt of the directory SourceDirs[i], unless it   *)
(* is already in the directory of its category; an even row then names it  *)
(* through the symbolic link to that directory.                            *)
(***************************************************************************)
SourceDirs == << "d1", "d2", "d3", "d4", "d5" >>
ExecRawCategories == { "documents_misc", None }
\* How the source of a row stands on disk.
SourceStates == { "present", "missing", "locked", "in_target" }
TheName == FileName("f1", ".txt")
TheName1 == [stem |-> "f1", ctrs |-> << 1 >>, suffix |-> ".txt"]

ExecSource(i, raw, st) ==
  PathOf(IF st # "in_target" THEN SourceDirs[i]
         ELSE IF i % 2 = 0 THEN LinkTo(ExecCategory(raw))
         ELSE ExecCategory(raw),
         TheName)

ExecRow(i, raw, st) ==
  [file_name |-> TheName,
   full_path |-> ExecSource(i, raw, st),
   category |-> raw,
   classifier_type |-> IF raw = None THEN None ELSE "rule",
   confidence |-> IF raw = None THEN NaN ELSE 10]

\* The category directories of the plans, each of which may exist, may be
\* missing, or may be impossible to create.
TargetDirs == { "documents_misc", "uncertain_review" }
\* Files that a category directory may hold before the call.
TargetContents ==
  { {}, {TheName}, {TheName1}, {TheName, TheName1} }

ApplyInputs ==
  /\ ex_pc = "idle"
  /\ ex_i = 0
  /\ category_dir_failures = << >>
  /\ move_records = << >>
  /\ ex_ret = NoReturn
  /\ ex_err = "none"
  /\ ex_runs = 0
  /\ mkdir_calls = << >>
  /\ fs_logs = << >>
  /\ clock = 0
  /\ lg_calls = << >>
  /\ log_fault = "none"
  /\ \/ /\ ex_plan \in { "none", "no_df" }
        /\ ex_cols = {}
        /\ ex_df = << >>
        /\ fs_files = { PathOf("d1", TheName) }
        /\ fs_dirs = { "d1" }
        /\ fs_blocked = {}
        /\ fs_locked = {}
     \/ /\ ex_plan = "ok"
        /\ ex_cols = PlanColumns \ {"category"}
        /\ ex_df = << >>
        /\ fs_files = { PathOf("d1", TheName) }
        /\ fs_dirs = { "d1" }
        /\ fs_blocked = {}
        /\ fs_locked = {}
     \/ /\ ex_plan = "ok"
        /\ ex_cols = PlanColumns
        /\ \E n \in 0..MaxMoves :
             \E raw \in [1..n -> ExecRawCategories] :
               \E st \in [1..n -> SourceStates] :
                 \E held \in TargetContents :
                   \E hasDir \in SUBSET TargetDirs : \E blocked \in SUBSET TargetDirs :
                     LET sources ==
                           { Resolve(ExecSource(i, raw[i], st[i])) :
                               i \in { j \in 1..n : st[j] # "missing" } }
                     IN
                     /\ ex_df = [i \in 1..n |-> ExecRow(i, raw[i], st[i])]
                     /\ fs_files =
                          sources \cup
                          { PathOf("documents_misc", nm) : nm \in held }
                     /\ fs_locked =
                          { ExecSource(i, raw[i], st[i]) :
                              i \in { j \in 1..n : st[j] = "locked" } }
                     /\ fs_dirs = { f.dir : f \in fs_files } \cup hasDir
                     /\ fs_blocked = blocked
                     /\ fs_blocked \cap fs_dirs = {}
  /\ ex_tree0 = Tree

(***************************************************************************)
(* Inputs of apply_plan: a plan whose frame did not come from              *)
(* classify_files and carries any category cell, every source present.     *)
(***************************************************************************)
AnyRawCategories == { "documents_misc", "bogus", "", None }

LabelInputs ==
  /\ ex_pc = "idle"
  /\ ex_i = 0
  /\ category_dir_failures = << >>
  /\ move_records = << >>
  /\ ex_ret = NoReturn
  /\ ex_err = "none"
  /\ ex_runs = 0
  /\ mkdir_calls = << >>
  /\ fs_logs = << >>
  /\ clock = 0
  /\ lg_calls = << >>
  /\ log_fault = "none"
  /\ ex_plan = "ok"
  /\ ex_cols = PlanColumns
  /\ \E n \in 1..MaxMoves :
       \E raw \in [1..n -> AnyRawCategories] :
         /\ ex_df = [i \in 1..n |-> ExecRow(i, raw[i], "present")]
         /\ fs_files = { ExecSource(i, raw[i], "present") : i \in 1..n }
  /\ fs_dirs = { f.dir : f \in fs_files }
  /\ fs_blocked \in { {}, {"uncertain_review"} }
  /\ fs_locked = {}
  /\ ex_tree0 = Tree

(***************************************************************************)
(* Calls of write_move_log on one root, over time.                         *)
(***************************************************************************)
\* The i-th outcome record a caller passes: a moved file of documents_misc
\* for odd i, a missing source without category for even i.
LogRecord(i) ==
  IF i % 2 = 1
    THEN MoveRecord(ExecRow(i, "documents_misc", "present"), "documents_misc",
                    PathOf("documents_misc", TheName), StatusSuccess)
    ELSE MoveRecord(ExecRow(i, None, "missing"), "uncertain_review",
                    PathOf("uncertain_review", TheName), StatusNoSource)

\* one call of write_move_log, from entry to return or raise
WriteMoveLogCall ==
  /\ Len(lg_calls) < MaxLogCalls
  /\ \E n \in 0..MaxLogRecords :
       WriteMoveLog([i \in 1..n |-> LogRecord(i)])
  /\ UNCHANGED << fs_files, fs_blocked, fs_locked, log_fault, clock >>
  /\ UNCHANGED << cfVars, plVars, exVars, orgVars >>

\* half a second passes
Tick ==
  /\ clock < MaxClock
  /\ clock' = clock + 1
  /\ UNCHANGED << fs_files, fs_dirs, fs_blocked, fs_locked, fs_logs,
                  log_fault, lg_calls >>
  /\ UNCHANGED << cfVars, plVars, exVars, orgVars >>

\* The root before the first call: the log directory may exist already.
LogInputs ==
  /\ fs_files = {}
  /\ fs_dirs \in { {}, {DEFAULT_LOG_DIRNAME} }
  /\ fs_blocked = {}
  /\ fs_locked = {}
  /\ fs_logs = << >>
  /\ log_fault \in { "none", "mkdir", "write" }
  /\ clock = 0
  /\ lg_calls = << >>

(***************************************************************************)
(* core/scanner.py and cli: the organize command                           *)
(***************************************************************************)
\* The order in which os.walk lists the files of the model.
WalkOrder ==
  << PathOf("inbox", FileName("f1", ".pdf")),
     PathOf("inbox", FileName("f2", ".xyz")),
     PathOf("inbox", FileName("f3", ".xyz")),
     PathOf("inbox", FileName("f4", ".JPG")) >>

\* the FileRecord of one file, as a row of the frame
ScanRow(path) ==
  [file_name |-> path.name,
   extension |-> Lower(path.name.suffix),
   full_path |-> path,
   size_bytes |-> StringRank[path.name.stem],
   category |-> AbsentCell,
   classifier_type |-> AbsentCell,
   confidence |-> AbsentNum]

\* scan_directory: one row per file under the root
ScanDirectory(files) ==
  LET found(p) == p \in files
      listed == SelectSeq(WalkOrder, found)
  IN [i \in DOMAIN listed |-> ScanRow(listed[i])]

\* A file name as the parts between its dots: << "f1", "tar", "gz" >> is
\* f1.tar.gz, << "", "DS_Store" >> is .DS_Store and << "f1", "" >> is f1.
RECURSIVE JoinDots(_)
JoinDots(parts) ==
  IF Len(parts) = 1 THEN parts[1]
  ELSE ( JoinDots(SubSeq(parts, 1, Len(parts) - 1)) \o "." )
         \o parts[Len(parts)]

\* name.rfind('.'), counted from 0; -1 when the name has no dot
LastDot(parts) ==
  IF Len(parts) = 1 THEN -1
  ELSE Len(JoinDots(SubSeq(parts, 1, Len(parts) - 1)))

\* full_path.suffix: the text from the last dot on, unless the name has no
\* dot, begins with its only dot or ends with a dot
PathSuffix(parts) ==
  LET i == LastDot(parts) IN
  IF 0 < i /\ i < Len(JoinDots(parts)) - 1
    THEN "." \o parts[Len(parts)]
    ELSE ""

\* the FileRecord of a file given by the parts of its name
ScanNamedRow(path) ==
  [file_name |-> JoinDots(path.name),
   extension |-> Lower(PathSuffix(path.name)),
   full_path |-> path,
   size_bytes |-> Len(JoinDots(path.name)),
   category |-> AbsentCell,
   classifier_type |-> AbsentCell,
   confidence |-> AbsentNum]

\* scan_directory on a tree of at most one file
ScanNamedDirectory(files) ==
  IF files = {} THEN << >> ELSE << ScanNamedRow(CHOOSE p \in files : TRUE) >>

\* core/errors.py: every exception class and its base class
ErrorBase ==
  "OrganizerError" :> "Exception" @@
  "PathError" :> "OrganizerError" @@
  "PathNotFoundError" :> "PathError" @@
  "PathNotDirectoryError" :> "PathError" @@
  "NoFilesFoundError" :> "PathError" @@
  "ConfigError" :> "OrganizerError" @@
  "EnvError" :> "OrganizerError" @@
  "MissingApiKeyError" :> "EnvError" @@
  "LlmError" :> "OrganizerError" @@
  "LlmUnavailableError" :> "LlmError" @@
  "LlmResponseParseError" :> "LlmError" @@
  "ClassificationError" :> "OrganizerError" @@
  "ExecutionError" :> "OrganizerError" @@
  "FileMoveError" :> "ExecutionError" @@
  "LoggingError" :> "ExecutionError" @@
  "OverflowError" :> "Exception"

RECURSIVE IsA(_, _)
\* isinstance(e, base)
IsA(e, base) ==
  e = base \/ ( e \in DOMAIN ErrorBase /\ IsA(ErrorBase[e], base) )

\* an except clause of the list names the class of e or one of its bases
Caught(e, handlers) == \E h \in handlers : IsA(e, h)

\* The except clauses around each stage of the scan and organize commands of
\* cortex_ai/cli, and of the scan command of cortex-ai/cli.
ResolveHandlers == { "PathNotFoundError", "PathNotDirectoryError" }
ScanHandlers == { "NoFilesFoundError" }
HandledClassifyErrors ==
  { "MissingApiKeyError", "LlmUnavailableError", "LlmResponseParseError",
    "ClassificationError" }
PlanHandlers == { "ClassificationError" }
ApplyHandlers == { "FileMoveError", "LoggingError" }
SimpleHandlers == { "OrganizerError" }

\* The commands: organize and scan of cortex_ai/cli, scan of cortex-ai/cli.
Commands == { "organize", "scan", "scan_simple" }

\* exit codes of the organize command
EXIT_PATH_ERROR == 1
EXIT_NO_FILES == 0
EXIT_CLASSIFY_ERROR == 1
EXIT_PLAN_ERROR == 1
EXIT_DECLINED == 0
EXIT_APPLY_ERROR == 1
\* the command function returns and typer ends the process normally
EXIT_APPLIED == 0
\* an exception that no except clause names ends the process with a traceback
EXIT_CRASH == 1
\* the except errors.OrganizerError clause of the scan command of cortex-ai/cli
EXIT_SIMPLE_ERROR == 1

\* input().strip().lower() on the answers of the model
Answers == { "y", " YES ", "n", "" }
StripLower(a) == IF a = " YES " THEN "yes" ELSE a
\* the prompt takes anything but a no for a yes
Confirmed_NotNo(a) == StripLower(a) # "n"
\* choice not in ("y", "yes") ends the command
Confirmed(a) == StripLower(a) \in { "y", "yes" }

\* the command ends with a message and typer.Exit(code), or by returning
OrgExit(end, code) ==
  /\ org_pc' = "exited"
  /\ org_end' = end
  /\ org_exit' = code
  /\ org_raised' = org_raised

\* the exception e leaves the command function
OrgCrash(e) ==
  /\ org_pc' = "exited"
  /\ org_end' = "crash"
  /\ org_exit' = EXIT_CRASH
  /\ org_raised' = e

\* what resolve_root and scan_directory raise for a root that is no directory
PathErrorOf(root) ==
  IF root = "missing" THEN "PathNotFoundError" ELSE "PathNotDirectoryError"

\* a stage raised e under the except clauses handlers: the clause that names
\* it ends the command with its message and code, and no clause lets it out
OrgRaise(e, handlers, end, code) ==
  IF Caught(e, IF org_cmd = "scan_simple" THEN SimpleHandlers ELSE handlers)
    THEN OrgExit(end, IF org_cmd = "scan_simple" THEN EXIT_SIMPLE_ERROR
                      ELSE code)
    ELSE OrgCrash(e)

\* resolve_root(path)
OrgResolve ==
  /\ org_pc = "start"
  /\ IF org_root # "dir"
       THEN OrgRaise(PathErrorOf(org_root), ResolveHandlers, "path_error",
                     EXIT_PATH_ERROR)
       ELSE /\ org_pc' = "scan"
            /\ UNCHANGED << org_end, org_exit, org_raised >>
  /\ UNCHANGED << org_cmd, org_root, org_df, org_answer, org_calls,
                  org_tree0 >>
  /\ UNCHANGED << cfVars, plVars, exVars, fsVars >>

\* between resolve_root and scan_directory the root directory is removed, or
\* replaced by a file, by another process
RootVanishes ==
  /\ org_pc = "scan"
  /\ org_root = "dir"
  /\ org_root' \in { "missing", "file" }
  /\ fs_files' = {}
  /\ fs_dirs' = {}
  /\ UNCHANGED << fs_blocked, fs_locked, fs_logs, log_fault, clock, lg_calls >>
  /\ UNCHANGED << org_pc, org_cmd, org_df, org_answer, org_calls, org_end,
                  org_exit, org_raised, org_tree0 >>
  /\ UNCHANGED << cfVars, plVars, exVars >>

\* scan_directory(root), then the call of classify_files; the scan command of
\* cortex-ai/cli ends here
OrgScan ==
  /\ org_pc = "scan"
  /\ org_calls' = Append(org_calls, "scan_directory")
               \o ( IF /\ org_root = "dir"
                       /\ ScanDirectory(fs_files) # << >>
                       /\ org_cmd # "scan_simple"
                      THEN << "classify_files" >> ELSE << >> )
  /\ IF org_root # "dir"
       THEN /\ OrgRaise(PathErrorOf(org_root), ScanHandlers, "path_error",
                        EXIT_PATH_ERROR)
            /\ UNCHANGED << org_df, cfVars >>
     ELSE IF ScanDirectory(fs_files) = << >>
       THEN /\ OrgRaise("NoFilesFoundError", ScanHandlers, "no_files",
                        EXIT_NO_FILES)
            /\ UNCHANGED << org_df, cfVars >>
     ELSE IF org_cmd = "scan_simple"
       THEN /\ OrgExit("scanned", 0)
            /\ org_df' = ScanDirectory(fs_files)
            /\ UNCHANGED cfVars
     ELSE /\ org_df' = ScanDirectory(fs_files)
          /\ org_pc' = "classify"
          /\ cf_pc' = "idle"
          /\ cf_cols' = BaseColumns
          /\ cf_in' = org_df'
          /\ UNCHANGED << org_end, org_exit, org_raised, min_confidence,
                          cf_df, cf_rows, cf_calls, cf_resp, cf_results,
                          cf_ret, cf_err, api_key >>
  /\ UNCHANGED << org_cmd, org_root, org_answer, org_tree0 >>
  /\ UNCHANGED << plVars, exVars, fsVars >>

\* classify_files came back: its except clauses, then the call of build_plan
OrgPlan ==
  /\ org_pc = "classify"
  /\ cf_pc \in { "done", "raised" }
  /\ IF cf_pc = "raised"
       THEN /\ OrgRaise(cf_err, HandledClassifyErrors, "classify_error",
                        EXIT_CLASSIFY_ERROR)
            /\ UNCHANGED << org_calls, plVars >>
       ELSE /\ org_pc' = "plan"
            /\ org_calls' = Append(org_calls, "build_plan")
            /\ pl_pc' = "idle"
            /\ pl_cols' = PlanColumns
            /\ pl_in' = cf_ret
            /\ UNCHANGED << org_end, org_exit, org_raised, pl_plan, pl_err >>
  /\ UNCHANGED << org_cmd, org_root, org_df, org_answer, org_tree0 >>
  /\ UNCHANGED << cfVars, exVars, fsVars >>

\* build_plan came back: the summary is printed; scan ends here, organize
\* shows the prompt
OrgPrompt ==
  /\ org_pc = "plan"
  /\ pl_pc \in { "done", "raised" }
  /\ IF pl_pc = "raised"
       THEN OrgRaise(pl_err, PlanHandlers, "plan_error", EXIT_PLAN_ERROR)
     ELSE IF org_cmd = "scan"
       THEN OrgExit("scanned", 0)
       ELSE /\ org_pc' = "prompt"
            /\ UNCHANGED << org_end, org_exit, org_raised >>
  /\ org_calls' = IF pl_pc = "raised" THEN org_calls
                  ELSE Append(org_calls, "print_plan_summary")
  /\ UNCHANGED << org_cmd, org_root, org_df, org_answer, org_tree0 >>
  /\ UNCHANGED << cfVars, plVars, exVars, fsVars >>

\* the answer is read: anything but y / yes ends the command, otherwise
\* apply_plan is called
OrgAnswer ==
  /\ org_pc = "prompt"
  /\ \E a \in Answers :
       /\ org_answer' = a
       /\ IF ~Confirmed(a)
            THEN /\ OrgExit("declined", EXIT_DECLINED)
                 /\ UNCHANGED << org_calls, exVars >>
            ELSE /\ org_pc' = "apply"
                 /\ org_calls' = Append(org_calls, "apply_plan")
                 /\ ex_pc' = "idle"
                 /\ ex_plan' = "ok"
                 /\ ex_cols' = PlanColumns
                 /\ ex_df' = pl_plan.df
                 /\ UNCHANGED << org_end, org_exit, org_raised, ex_i,
                                 category_dir_failures, move_records, ex_ret,
                                 ex_err, ex_runs, ex_tree0, mkdir_calls >>
  /\ UNCHANGED << org_cmd, org_root, org_df, org_tree0 >>
  /\ UNCHANGED << cfVars, plVars, fsVars >>

\* apply_plan came back: its except clauses, or the summaries and the end
OrgFinish ==
  /\ org_pc = "apply"
  /\ ex_pc \in { "done", "raised" }
  /\ IF ex_pc = "raised"
       THEN OrgRaise(ex_err, ApplyHandlers, "apply_error", EXIT_APPLY_ERROR)
       ELSE OrgExit("applied", EXIT_APPLIED)
  /\ UNCHANGED << org_cmd, org_root, org_df, org_answer, org_calls,
                  org_tree0 >>
  /\ UNCHANGED << cfVars, plVars, exVars, fsVars >>

(***************************************************************************)
(* Inputs of the organize command: up to MaxScan files under the root.     *)
(***************************************************************************)
OrgThresholds == { 5, 10 }
OrgFaults == { "none", "write" }

\* the state of a command before its first step
CommandInputs ==
  /\ org_pc = "start"
  /\ org_raised = "none"
  /\ org_df = << >>
  /\ org_answer = ""
  /\ org_calls = << >>
  /\ org_end = "running"
  /\ org_exit = -1
  /\ min_confidence \in OrgThresholds
  /\ api_key \in BOOLEAN
  /\ fs_locked = {}
  /\ fs_logs = << >>
  /\ clock = 0
  /\ lg_calls = << >>
  /\ \/ /\ org_root \in { "missing", "file" }
        /\ fs_files = {}
        /\ fs_dirs = {}
        /\ fs_blocked = {}
        /\ log_fault = "none"
     \/ /\ org_root = "dir"
        /\ \E S \in SUBSET (1..MaxScan) :
             fs_files = { WalkOrder[i] : i \in S }
        /\ fs_dirs = { f.dir : f \in fs_files }
        /\ fs_blocked \in { {}, {"uncertain_review"} }
        /\ log_fault \in OrgFaults
  /\ org_tree0 = [files |-> fs_files, dirs |-> fs_dirs]

OrganizeInputs == CommandInputs /\ org_cmd = "organize"

\* the two scan commands
ScanInputs == CommandInputs /\ org_cmd \in { "scan", "scan_simple" }

\* The parts a name of the model is made of: what follows the dot in each
\* key of DEFAULT_EXTENSION_MAP that has one dot, and "gz", "DS_Store" and
\* the empty part.
KeySegments ==
  { "py", "java", "cpp", "c", "h", "hpp", "js", "ts", "ipynb",
    "jpg", "jpeg", "png", "heic", "gif", "tif", "tiff",
    "mov", "mp4", "mkv", "avi", "mp3", "wav", "flac", "m4a",
    "zip", "tar", "tgz", "rar", "dmg", "pkg", "exe",
    "pdf", "doc", "docx", "ppt", "pptx", "xls", "xlsx", "txt", "md",
    "tmp", "log", "ds_store" }
NameSegments == KeySegments \cup { "", "gz", "DS_Store" }
FirstSegments == { "", "f1" }
MiddleSegments == { "", "tar" }

RECURSIVE StemsWithDots(_)
\* what precedes the last dot of a name with n + 1 dots
StemsWithDots(n) ==
  IF n = 0 THEN { << a >> : a \in FirstSegments }
  ELSE { Append(s, b) : s \in StemsWithDots(n - 1), b \in MiddleSegments }

\* the names with n dots
NamesWithDots(n) ==
  IF n = 0 THEN { << a >> : a \in FirstSegments }
  ELSE { Append(s, b) : s \in StemsWithDots(n - 1), b \in NameSegments }

\* neither empty nor "." nor "..": some part is not empty
IsFileName(parts) == \E i \in DOMAIN parts : parts[i] # ""

\* the names a file of the scanned directory may have
ScanNames ==
  { s \in UNION { NamesWithDots(n) : n \in 0..MaxDots } : IsFileName(s) }

\* the scan command of cortex_ai/cli on a directory that holds at most one
\* file, of any name
NamedInputs ==
  /\ org_pc = "start"
  /\ org_cmd = "scan"
  /\ org_root = "dir"
  /\ org_raised = "none"
  /\ org_df = << >>
  /\ org_answer = ""
  /\ org_calls = << >>
  /\ org_end = "running"
  /\ org_exit = -1
  /\ min_confidence = 5
  /\ api_key \in BOOLEAN
  /\ \/ fs_files = {}
     \/ \E name \in ScanNames : fs_files = { PathOf("inbox", name) }
  /\ fs_dirs = { f.dir : f \in fs_files }
  /\ fs_blocked = {}
  /\ fs_locked = {}
  /\ fs_logs = << >>
  /\ log_fault = "none"
  /\ clock = 0
  /\ lg_calls = << >>
  /\ org_tree0 = [files |-> fs_files, dirs |-> fs_dirs]

\* scan_directory(root) on that directory, then the call of classify_files
ScanNamed ==
  /\ org_pc = "scan"
  /\ org_calls' = Append(org_calls, "scan_directory")
               \o ( IF ScanNamedDirectory(fs_files) # << >>
                      THEN << "classify_files" >> ELSE << >> )
  /\ IF ScanNamedDirectory(fs_files) = << >>
       THEN /\ OrgRaise("NoFilesFoundError", ScanHandlers, "no_files",
                        EXIT_NO_FILES)
            /\ UNCHANGED << org_df, cfVars >>
       ELSE /\ org_df' = ScanNamedDirectory(fs_files)
            /\ org_pc' = "classify"
            /\ cf_pc' = "idle"
            /\ cf_cols' = BaseColumns
            /\ cf_in' = org_df'
            /\ UNCHANGED << org_end, org_exit, org_raised, min_confidence,
                            cf_df, cf_rows, cf_calls, cf_resp, cf_results,
                            cf_ret, cf_err, api_key >>
  /\ UNCHANGED << org_cmd, org_root, org_answer, org_tree0 >>
  /\ UNCHANGED << plVars, exVars, fsVars >>

(***************************************************************************)
(* Specifications.                                                         *)
(***************************************************************************)
\* classify_files is not running
IdleClassify ==
  /\ cf_pc = "off"
  /\ cf_cols = {}
  /\ cf_in = << >>
  /\ min_confidence = 0
  /\ api_key = FALSE
  /\ cf_df = << >>
  /\ cf_rows = {}
  /\ cf_calls = << >>
  /\ cf_resp = NoResponse
  /\ cf_results = << >>
  /\ cf_ret = << >>
  /\ cf_err = "none"

\* build_plan is not running
IdlePlan ==
  /\ pl_pc = "off"
  /\ pl_cols = {}
  /\ pl_in = << >>
  /\ pl_plan = NoPlan
  /\ pl_err = "none"

\* apply_plan is not running
IdleApply ==
  /\ ex_pc = "off"
  /\ ex_plan = "none"
  /\ ex_cols = {}
  /\ ex_df = << >>
  /\ ex_i = 0
  /\ category_dir_failures = << >>
  /\ move_records = << >>
  /\ ex_ret = NoReturn
  /\ ex_err = "none"
  /\ ex_runs = 0
  /\ ex_tree0 = [files |-> {}, dirs |-> {}, logs |-> << >>]
  /\ mkdir_calls = << >>

\* an empty tree
EmptyTree ==
  /\ fs_files = {}
  /\ fs_dirs = {}
  /\ fs_blocked = {}
  /\ fs_locked = {}
  /\ fs_logs = << >>
  /\ log_fault = "none"
  /\ clock = 0
  /\ lg_calls = << >>

\* the organize command is not running
IdleOrganize ==
  /\ org_pc = "off"
  /\ org_cmd = "organize"
  /\ org_raised = "none"
  /\ org_root = "dir"
  /\ org_df = << >>
  /\ org_answer = ""
  /\ org_calls = << >>
  /\ org_end = "running"
  /\ org_exit = -1
  /\ org_tree0 = [files |-> {}, dirs |-> {}]

\* SpecClassify: one call of classify_files
InitClassify ==
  ClassifyInputs /\ IdlePlan /\ IdleApply /\ EmptyTree /\ IdleOrganize

NextClassify ==
  \/ ClassifyCall
  \/ RemoteCallFails
  \/ RemoteReturnsUnparseable
  \/ RemoteReturnsObject

SpecClassify == InitClassify /\ [][NextClassify]_vars

\* SpecPlan: one call of build_plan
InitPlan ==
  PlanInputs /\ IdleClassify /\ IdleApply /\ EmptyTree /\ IdleOrganize

NextPlan == BuildPlanCall

SpecPlan == InitPlan /\ [][NextPlan]_vars

\* SpecApply: one call of apply_plan
InitApply == ApplyInputs /\ IdleClassify /\ IdlePlan /\ IdleOrganize

NextApply ==
  \/ ApplyStart
  \/ ApplyRow
  \/ ApplyWriteLog
  \/ LogFaultArises
  \/ ApplyAgain

SpecApply == InitApply /\ [][NextApply]_vars

\* SpecApplyLabels: one call of apply_plan on a plan with any category cells
InitApplyLabels == LabelInputs /\ IdleClassify /\ IdlePlan /\ IdleOrganize

NextApplyLabels ==
  \/ ApplyStart
  \/ ApplyRow
  \/ ApplyWriteLog

SpecApplyLabels == InitApplyLabels /\ [][NextApplyLabels]_vars

\* SpecLog: calls of write_move_log on one root
InitLog ==
  LogInputs /\ IdleClassify /\ IdlePlan /\ IdleApply /\ IdleOrganize

NextLog ==
  \/ WriteMoveLogCall
  \/ Tick

SpecLog == InitLog /\ [][NextLog]_vars

\* classify_files before the command calls it
UncalledClassify ==
  /\ cf_pc = "off"
  /\ cf_cols = {}
  /\ cf_in = << >>
  /\ cf_df = << >>
  /\ cf_rows = {}
  /\ cf_calls = << >>
  /\ cf_resp = NoResponse
  /\ cf_results = << >>
  /\ cf_ret = << >>
  /\ cf_err = "none"

\* SpecOrganize: one run of the organize command
InitOrganize == OrganizeInputs /\ UncalledClassify /\ IdlePlan /\ IdleApply

NextOrganize ==
  \/ OrgResolve
  \/ RootVanishes
  \/ OrgScan
  \/ ClassifyCall
  \/ RemoteCallFails
  \/ RemoteReturnsUnparseable
  \/ RemoteReturnsObject
  \/ OrgPlan
  \/ BuildPlanCall
  \/ OrgPrompt
  \/ OrgAnswer
  \/ ApplyStart
  \/ ApplyRow
  \/ ApplyWriteLog
  \/ OrgFinish

SpecOrganize == InitOrganize /\ [][NextOrganize]_vars

\* SpecScan: one run of a scan command
InitScan == ScanInputs /\ UncalledClassify /\ IdlePlan /\ IdleApply

NextScan ==
  \/ OrgResolve
  \/ RootVanishes
  \/ OrgScan
  \/ ClassifyCall
  \/ RemoteCallFails
  \/ RemoteReturnsUnparseable
  \/ RemoteReturnsObject
  \/ OrgPlan
  \/ BuildPlanCall
  \/ OrgPrompt

SpecScan == InitScan /\ [][NextScan]_vars

\* SpecScanNames: the scan command on a directory whose file has any name,
\* up to the return of classify_files
InitScanNames == NamedInputs /\ UncalledClassify /\ IdlePlan /\ IdleApply

NextScanNames ==
  \/ OrgResolve
  \/ ScanNamed
  \/ ClassifyCall
  \/ RemoteCallFails
  \/ RemoteReturnsUnparseable
  \/ RemoteReturnsObject

SpecScanNames == InitScanNames /\ [][NextScanNames]_vars

(***************************************************************************)
(* Properties of classify_files.                                           *)
(***************************************************************************)
Accepted == MissingColumns(cf_cols) = {}
Recognized(i) == Lower(cf_in[i].extension) \in DOMAIN DEFAULT_EXTENSION_MAP
RuleClassified(r, ext) ==
  /\ r.classifier_type = "rule"
  /\ r.confidence = 10
  /\ r.category = DEFAULT_EXTENSION_MAP[Lower(ext)]
InUnitInterval(c) == c # NaN /\ c >= 0 /\ c <= 10
\* the response holds no usable entry for path p
NoEntryFor(p) ==
  p \notin DOMAIN cf_resp.entries \/ ~cf_resp.entries[p].isdict

\* C1 as stated: for every accepted frame, whatever the remote call does
\* (it answers, it fails, its answer is unparseable), the call yields every
\* record of a recognized extension as rule / 1.0 / mapped category, also
\* when the batch holds unrecognized extensions.
C1_RuleRecordsAlwaysYielded ==
  ( /\ cf_pc \in {"done", "raised"}
    /\ Accepted
    /\ cf_err \in {"none", "LlmUnavailableError", "LlmResponseParseError"} )
  => \A i \in DOMAIN cf_in :
        Recognized(i) =>
          i \in DOMAIN cf_ret /\ RuleClassified(cf_ret[i], cf_in[i].extension)

\* C1 amended: whenever classify_files returns, every record of a
\* recognized extension is rule / 1.0 / mapped category, also in a batch with
\* unrecognized extensions; a batch that leaves no record without a
\* category after the rule pass always returns, whatever the state of the
\* remote classifier and of the credential; a remote failure or an
\* unparseable answer is only ever met with a record left without category,
\* and then classify_files raises and returns nothing.
C1_RuleRecordsWhenReturned ==
  /\ cf_pc = "done" =>
       /\ Len(cf_ret) = Len(cf_in)
       /\ \A i \in DOMAIN cf_in :
             Recognized(i) => RuleClassified(cf_ret[i], cf_in[i].extension)
  /\ ( cf_pc \in {"done", "raised"} /\ Accepted /\ cf_rows = {} ) =>
       cf_pc = "done" /\ cf_resp = NoResponse
  /\ cf_pc = "raised" => cf_ret = << >>
  /\ cf_err \in {"LlmUnavailableError", "LlmResponseParseError"} =>
       cf_rows # {}

\* a mixed batch came back from a remote answer: an upper-case recognized
\* extension next to a record that went to the remote classifier
C1_Witness ==
  /\ cf_pc = "done"
  /\ cf_resp.kind = "object"
  /\ \E i, j \in DOMAIN cf_in :
        /\ cf_in[i].extension = ".JPG"
        /\ cf_ret[i].category = "photos_images"
        /\ cf_in[j].full_path \in cf_rows

\* C2: after classify_files returns, every llm record whose confidence is
\* below min_confidence has category uncertain_review.
C2_LowConfidenceDemoted ==
  cf_pc = "done" =>
    \A i \in DOMAIN cf_ret :
       ( cf_ret[i].classifier_type = "llm"
         /\ FLt(cf_ret[i].confidence, min_confidence) )
       => cf_ret[i].category = "uncertain_review"

\* the remote classifier proposed a category of the closed set with a
\* confidence below the threshold, and the record was demoted
C2_Witness ==
  /\ cf_pc = "done"
  /\ \E i \in DOMAIN cf_ret :
        /\ cf_ret[i].full_path \in DOMAIN cf_results
        /\ cf_results[cf_ret[i].full_path].category = "school_work"
        /\ cf_ret[i].confidence = 5
        /\ min_confidence = 10
        /\ cf_ret[i].category = "uncertain_review"

\* C3: every returned record has a category of the closed set and a
\* classifier_type of rule or llm, whether or not the frame already carried
\* the classification columns.
C3_ClosedCategorySet ==
  cf_pc = "done" =>
    \A i \in DOMAIN cf_ret :
       /\ cf_ret[i].category \in CategorySet
       /\ cf_ret[i].classifier_type \in {"rule", "llm"}

\* C4: every confidence returned by _llm_classify_files lies in [0,1], a
\* value that is not a number becoming 0.0; so every record classified from
\* the mapping has a confidence in [0,1].
C4_ConfidenceClamped ==
  cf_pc = "done" =>
    /\ \A p \in DOMAIN cf_results : InUnitInterval(cf_results[p].confidence)
    /\ \A i \in DOMAIN cf_ret :
          cf_ret[i].full_path \in cf_rows =>
            InUnitInterval(cf_ret[i].confidence)

\* C10: an ambiguous record whose path has no entry in the returned mapping
\* (none sent, or one dropped for not being an object) comes back as
\* uncertain_review / llm / 0.0, for every min_confidence.
C10_NoEntryIsUncertain ==
  ( cf_pc = "done" /\ cf_resp.kind = "object" ) =>
    \A i \in DOMAIN cf_ret :
       ( cf_ret[i].full_path \in cf_rows /\ NoEntryFor(cf_ret[i].full_path) )
       => /\ cf_ret[i].category = "uncertain_review"
          /\ cf_ret[i].classifier_type = "llm"
          /\ cf_ret[i].confidence = 0

\* one ambiguous record had no entry at all and another had an entry that
\* was not an object, under the threshold 0
C10_Witness ==
  /\ cf_pc = "done"
  /\ cf_resp.kind = "object"
  /\ min_confidence = 0
  /\ \E p, q \in cf_rows :
        /\ p \notin DOMAIN cf_resp.entries
        /\ q \in DOMAIN cf_resp.entries
        /\ ~cf_resp.entries[q].isdict

\* the paths of the records without a rule match
Unmatched ==
  { cf_in[i].full_path : i \in { j \in DOMAIN cf_in : ~Recognized(j) } }
\* the paths of the records the rule pass leaves without a category
Unclassified ==
  { cf_in[i].full_path :
      i \in { j \in DOMAIN cf_in :
                ~Recognized(j) /\ cf_in[j].category \in {None, AbsentCell} } }

\* C11 as stated: a classify_files invocation makes at most one remote call;
\* exactly one, carrying every record left to the remote classifier, when at
\* least one record has no rule match, and none when every record is
\* rule-matched.
C11_OneCallWhenUnmatched ==
  /\ Len(cf_calls) <= 1
  /\ ( cf_pc \in {"done", "raised"} /\ Accepted ) =>
       IF Unmatched # {}
         THEN cf_calls = << Unclassified >>
         ELSE cf_calls = << >> /\ cf_pc = "done"

\* C11 amended: a classify_files invocation makes at most one remote call;
\* exactly one, carrying every record the rule pass left without a category,
\* when there is such a record and the credential is set; none when the
\* frame is rejected, when every record has a category after the rule pass,
\* or when the credential is absent; a run whose records are all
\* rule-matched returns without a call, with or without the credential.
C11_AtMostOneCall ==
  /\ Len(cf_calls) <= 1
  /\ cf_pc = "idle" => cf_calls = << >>
  /\ cf_pc \in {"remote", "done", "raised"} =>
       IF Accepted /\ Unclassified # {} /\ api_key
         THEN cf_calls = << Unclassified >>
         ELSE cf_calls = << >>
  /\ ( cf_pc \in {"done", "raised"} /\ Accepted /\ Unmatched = {} ) =>
       cf_pc = "done" /\ cf_calls = << >>

\* two records without a rule match went out in one request and the call
\* returned
C11_Witness ==
  /\ cf_pc = "done"
  /\ Len(cf_calls) = 1
  /\ Cardinality(cf_calls[1]) = 2

\* the step in which classify_files raises MissingApiKeyError leaves the
\* frame of the caller as it was, with no request made and nothing returned
C16_RaiseLeavesInput ==
  ( cf_pc = "idle" /\ cf_pc' = "raised" /\ cf_err' = "MissingApiKeyError" )
  => /\ cf_in' = cf_in
     /\ cf_calls' = << >>
     /\ cf_resp' = NoResponse
     /\ cf_ret' = << >>

\* with the credential absent and a record left without a category, the
\* call ends in MissingApiKeyError and in nothing else
C16_RaisesMissingKey ==
  /\ ( cf_pc \in {"remote", "done", "raised"} /\ Accepted /\ ~api_key
       /\ Unclassified # {} )
     => /\ cf_pc = "raised"
        /\ cf_err = "MissingApiKeyError"
        /\ cf_calls = << >>
        /\ cf_ret = << >>
  /\ cf_err = "MissingApiKeyError" => ~api_key /\ Unclassified # {}

\* C16: when the credential is absent and at least one record is ambiguous,
\* classify_files fails with MissingApiKeyError before any request to the
\* remote classifier, returns nothing, and leaves the caller's table as it
\* was.
C16_MissingKeyBeforeNetwork ==
  [][C16_RaiseLeavesInput]_vars /\ []C16_RaisesMissingKey

\* MissingApiKeyError was raised on a batch of a rule-matched and an
\* ambiguous record, after the rule pass had filled the working copy
C16_Witness ==
  /\ cf_pc = "raised"
  /\ cf_err = "MissingApiKeyError"
  /\ Len(cf_in) = 2
  /\ \E i \in DOMAIN cf_in :
        /\ Recognized(i)
        /\ cf_df[i].classifier_type = "rule"
        /\ cf_in[i].classifier_type # "rule"

\* row i of the returned frame against row i of the working copy as it stood
\* when the threshold pass began: every cell but the category is the same
SameButCategory(i) ==
  [cf_ret[i] EXCEPT !.category = cf_df[i].category] = cf_df[i]

\* C21: the threshold pass changes only the category, and only of llm
\* records whose confidence is strictly below min_confidence: an llm record
\* with confidence equal to min_confidence keeps its category, confidence
\* and classifier_type of every record are as before the pass, and a rule
\* record comes out as it went in, for every min_confidence.
C21_ThresholdFrame ==
  cf_pc = "done" =>
    /\ Len(cf_ret) = Len(cf_df)
    /\ \A i \in DOMAIN cf_ret :
         /\ SameButCategory(i)
         /\ cf_ret[i].category # cf_df[i].category =>
              /\ cf_df[i].classifier_type = "llm"
              /\ FLt(cf_df[i].confidence, min_confidence)
              /\ cf_ret[i].category = "uncertain_review"
         /\ ( cf_df[i].classifier_type = "llm"
              /\ cf_df[i].confidence = min_confidence ) =>
              cf_ret[i].category = cf_df[i].category
         /\ cf_df[i].classifier_type = "rule" => cf_ret[i] = cf_df[i]

\* under the threshold 0.5 one llm record of confidence 0.5 kept the category
\* the remote classifier gave it and one of confidence 0.0 lost it
C21_Witness ==
  /\ cf_pc = "done"
  /\ min_confidence = 5
  /\ \E i, j \in DOMAIN cf_ret :
        /\ cf_df[i].classifier_type = "llm"
        /\ cf_df[i].confidence = 5
        /\ cf_ret[i].category = "school_work"
        /\ cf_df[j].classifier_type = "llm"
        /\ cf_df[j].confidence = 0
        /\ cf_df[j].category = "school_work"
        /\ cf_ret[j].category = "uncertain_review"

\* a rule record of confidence 1.0 went through the pass under a threshold
\* above 1.0, next to an llm record that was demoted
C21_WitnessRule ==
  /\ cf_pc = "done"
  /\ min_confidence = 12
  /\ \E i, j \in DOMAIN cf_ret :
        /\ cf_ret[i].classifier_type = "rule"
        /\ cf_ret[i].category = "documents_misc"
        /\ cf_df[j].category = "school_work"
        /\ cf_ret[j].category = "uncertain_review"

\* the labels the remote classifier gave that are strings outside CATEGORIES
UnknownLabel(p) ==
  /\ p \in DOMAIN cf_resp.entries
  /\ cf_resp.entries[p].isdict
  /\ cf_resp.entries[p].category \notin
       CategorySet \cup { MissingCategory, JsonNull }

\* C22: _llm_classify_files returns a category label outside CATEGORIES as
\* it is, with the clamped confidence, and classify_files returns the record
\* of that path as uncertain_review / llm with the confidence of the adapter.
C22_UnknownLabelReplaced ==
  ( cf_pc = "done" /\ cf_resp.kind = "object" ) =>
    \A i \in DOMAIN cf_ret :
       LET p == cf_ret[i].full_path IN
       ( p \in cf_rows /\ UnknownLabel(p) ) =>
         /\ cf_results[p].category = cf_resp.entries[p].category
         /\ cf_results[p].category \notin CategorySet
         /\ cf_results[p].confidence =
              Clamp(ToFloat(cf_resp.entries[p].confidence))
         /\ cf_ret[i].category = "uncertain_review"
         /\ cf_ret[i].classifier_type = "llm"
         /\ cf_ret[i].confidence = cf_results[p].confidence

\* the remote classifier answered "bogus" with confidence 1.2 for a record
\* under the threshold 0.5: the adapter returned bogus / 1.0 and the record
\* came back as uncertain_review / llm / 1.0
C22_Witness ==
  /\ cf_pc = "done"
  /\ min_confidence = 5
  /\ \E i \in DOMAIN cf_ret :
        LET p == cf_ret[i].full_path IN
        /\ p \in DOMAIN cf_results
        /\ cf_resp.entries[p].confidence = 12
        /\ cf_results[p] = [category |-> "bogus", confidence |-> 10]
        /\ cf_ret[i].category = "uncertain_review"
        /\ cf_ret[i].confidence = 10

\* C23: the two failures of the adapter are told apart by the stage that
\* failed: a remote call that raises ends in LlmUnavailableError and in
\* nothing else, a call that returns a payload that is not JSON or not a JSON
\* object ends in LlmResponseParseError and in nothing else, and neither
\* error is raised for anything else.
C23_FailureKindsDisjoint ==
  /\ cf_resp.kind = "error" =>
       cf_pc = "raised" /\ cf_err = "LlmUnavailableError"
  /\ cf_resp.kind \in UnparseableKinds =>
       cf_pc = "raised" /\ cf_err = "LlmResponseParseError"
  /\ cf_err = "LlmUnavailableError" => cf_resp.kind = "error"
  /\ cf_err = "LlmResponseParseError" => cf_resp.kind \in UnparseableKinds
  /\ cf_pc = "raised" => cf_ret = << >>

\* the call returned JSON that is not an object and classify_files raised
\* LlmResponseParseError after one request
C23_Witness ==
  /\ cf_pc = "raised"
  /\ cf_resp.kind = "not_object"
  /\ cf_err = "LlmResponseParseError"
  /\ Len(cf_calls) = 1

\* the call itself raised and classify_files raised LlmUnavailableError
C23_WitnessUnavailable ==
  /\ cf_pc = "raised"
  /\ cf_resp.kind = "error"
  /\ cf_err = "LlmUnavailableError"
  /\ Len(cf_calls) = 1

(***************************************************************************)
(* Properties of build_plan.                                               *)
(***************************************************************************)
RECURSIVE SumFileCount(_)
SumFileCount(cats) ==
  IF cats = << >> THEN 0 ELSE Head(cats).file_count + SumFileCount(Tail(cats))
RECURSIVE SumCategorySize(_)
SumCategorySize(cats) ==
  IF cats = << >> THEN 0
  ELSE Head(cats).total_size + SumCategorySize(Tail(cats))

\* C7: for every frame build_plan accepts, the per-category file counts add
\* up to total_files and the per-category sizes in bytes add up to the
\* global size.
C7_TotalsAgree ==
  pl_pc = "done" =>
    /\ SumFileCount(pl_plan.categories) = pl_plan.total_files
    /\ SumCategorySize(pl_plan.categories) = pl_plan.total_size

\* the categories of the plan, in the order of PlanSummary.categories
PlanCats == [k \in DOMAIN pl_plan.categories |-> pl_plan.categories[k].category]
\* the position of a member of CATEGORIES in the canonical list
CatIndex(c) == CHOOSE i \in DOMAIN CATEGORIES : CATEGORIES[i] = c
\* the rows of the frame that carry category c
RowsOf(c) == { i \in DOMAIN pl_in : pl_in[i].category = c }

\* C24: PlanSummary.categories lists every category that has a record, once:
\* the members of CATEGORIES in the order of that list, then the categories
\* outside it; a category without a record is not listed.
C24_CategoryOrder ==
  pl_pc = "done" =>
    /\ \A j, k \in DOMAIN PlanCats : j # k => PlanCats[j] # PlanCats[k]
    /\ { PlanCats[k] : k \in DOMAIN PlanCats } =
         { pl_in[i].category : i \in DOMAIN pl_in } \ {None}
    /\ \A k \in DOMAIN PlanCats :
         /\ pl_plan.categories[k].file_count = Cardinality(RowsOf(PlanCats[k]))
         /\ pl_plan.categories[k].file_count >= 1
    /\ \A j, k \in DOMAIN PlanCats :
         ( j < k /\ PlanCats[k] \in CategorySet ) =>
           /\ PlanCats[j] \in CategorySet
           /\ CatIndex(PlanCats[j]) < CatIndex(PlanCats[k])

\* a frame whose rows carry bogus, documents_misc, photos_images and no
\* category, in that order, gave the plan photos_images, documents_misc, bogus
C24_Witness ==
  /\ pl_pc = "done"
  /\ Len(pl_in) = 4
  /\ pl_in[1].category = "bogus"
  /\ pl_in[2].category = "documents_misc"
  /\ pl_in[3].category = "photos_images"
  /\ pl_in[4].category = None
  /\ PlanCats = << "photos_images", "documents_misc", "bogus" >>

\* a <= b in the order of file names
NameLeq(a, b) == ~NameLess(b, a)

\* C25: for each category of a plan, sample_files has min(3, file_count)
\* names, in ascending order of file name, and they are the least names of
\* the category: every sampled name is a name of the category, taken no
\* more often than the category holds it, and fewer than k records of the
\* category have a name below the k-th sampled name.
C25_SampleFiles ==
  pl_pc = "done" =>
    \A c \in DOMAIN pl_plan.categories :
       LET s == pl_plan.categories[c]
           smp == s.sample_files
           rows == RowsOf(s.category)
       IN
       /\ Len(smp) = IF s.file_count < 3 THEN s.file_count ELSE 3
       /\ \A k \in 1..(Len(smp) - 1) : NameLeq(smp[k], smp[k + 1])
       /\ \A k \in DOMAIN smp :
            /\ Cardinality({ j \in DOMAIN smp : smp[j] = smp[k] }) <=
                 Cardinality({ i \in rows : pl_in[i].file_name = smp[k] })
            /\ Cardinality({ i \in rows :
                               NameLess(pl_in[i].file_name, smp[k]) }) < k
       /\ \A i \in rows : NameLeq(smp[Len(smp)], pl_in[i].file_name) \/
            \E k \in DOMAIN smp : smp[k] = pl_in[i].file_name

\* four records of one category, listed as f3, f2, f1, f2: the samples are
\* f1, f2, f2 and f3 is left out
C25_Witness ==
  /\ pl_pc = "done"
  /\ Len(pl_in) = 4
  /\ \A i \in 1..4 : pl_in[i].category = "documents_misc"
  /\ pl_in[1].file_name.stem = "f3"
  /\ pl_in[2].file_name.stem = "f2"
  /\ pl_in[3].file_name.stem = "f1"
  /\ pl_in[4].file_name.stem = "f2"
  /\ Len(pl_plan.categories) = 1
  /\ pl_plan.categories[1].file_count = 4
  /\ pl_plan.categories[1].sample_files =
       << FileName("f1", ".pdf"), FileName("f2", ".xyz"),
          FileName("f2", ".xyz") >>

(***************************************************************************)
(* Properties of apply_plan.                                               *)
(***************************************************************************)
\* apply_plan passed its validation
Validated == ex_pc \in {"loop", "done", "raised"} /\ ex_err # "FileMoveError"

\* C5: once the plan passed validation, apply_plan appends exactly one
\* MoveRecord per row of plan.df, in plan order; a failed or skipped row
\* does not keep the later rows from being attempted and recorded: the loop
\* is left only after the last row, with as many records as rows.
C5_OneRecordPerRow ==
  Validated =>
    /\ Len(move_records) = (IF ex_pc = "loop" THEN ex_i - 1 ELSE Len(ex_df))
    /\ \A k \in DOMAIN move_records :
          /\ move_records[k].old_path = ex_df[k].full_path
          /\ move_records[k].file_name = ex_df[k].file_name
    /\ ex_pc = "done" => ex_ret.moves = move_records

\* a run that returned after a failed row, a skipped row and then a moved
\* row
C5_Witness ==
  /\ ex_pc = "done"
  /\ \E i, j, k \in DOMAIN move_records :
        /\ i < k /\ j < k
        /\ IsFailed(move_records[i].status)
        /\ move_records[j].status = StatusSkipped
        /\ move_records[k].status = StatusSuccess

\* the plan is None, plan.df is None, or plan.df lacks a required column
Malformed == ex_plan # "ok" \/ ExecMissingColumns(ex_cols) # {}

\* C12: apply_plan raises FileMoveError exactly for a malformed plan, and
\* when it has raised it, the tree is as it was at the entry of the call: no
\* directory created, no file moved, no log written, no record appended.
C12_FileMoveErrorBeforeMutation ==
  /\ ( ex_pc \in {"loop", "done", "raised"} /\ Malformed ) =>
       ex_pc = "raised" /\ ex_err = "FileMoveError"
  /\ ex_err = "FileMoveError" =>
       /\ Malformed
       /\ fs_files = ex_tree0.files
       /\ fs_dirs = ex_tree0.dirs
       /\ fs_logs = ex_tree0.logs
       /\ lg_calls = << >>
       /\ move_records = << >>

\* apply_plan has raised FileMoveError on a plan whose frame lacks the
\* category column, with a file under the root
C12_Witness ==
  /\ ex_pc = "raised"
  /\ ex_err = "FileMoveError"
  /\ ex_plan = "ok"
  /\ "category" \notin ex_cols
  /\ fs_files # {}

\* the default destination of a record: root / category / name
DefaultDestination(r) == PathOf(r.category, r.old_path.name)
\* a file of directory d whose name is nm with any counters added
SameFamily(f, d, nm) ==
  f.dir = d /\ f.name.stem = nm.stem /\ f.name.suffix = nm.suffix
\* the moved records of name nm and category c, by index
Landed(c, nm) ==
  { k \in DOMAIN move_records :
      /\ move_records[k].status = StatusSuccess
      /\ move_records[k].category = c
      /\ move_records[k].old_path.name = nm }

\* in the step that appends a record for a move that was attempted, the
\* destination is the default one if it is free, and otherwise the
\* candidate of the least counter i >= 1 that is free at that moment
C6_LeastFreeCounter ==
  ( ex_pc = "loop" /\ Len(move_records') = Len(move_records) + 1
    /\ move_records'[Len(move_records')].status
          \in { StatusSuccess, Failed(MoveReason) } )
  => LET r == move_records'[Len(move_records')]
         dflt == DefaultDestination(r)
     IN IF dflt \notin fs_files THEN r.new_path = dflt
        ELSE \E i \in 1..(Cardinality(fs_files) + 1) :
               /\ r.new_path = Candidate(dflt, i)
               /\ r.new_path \notin fs_files
               /\ \A j \in 1..(i - 1) : Candidate(dflt, j) \in fs_files

\* when the names foo.txt, foo (1).txt, ... of a category directory are held
\* by nothing but the files moved there under the name foo.txt in this run,
\* the j-th such file is at foo.txt for j = 1 and at foo (j-1).txt after
C6_InProcessingOrder ==
  \A c \in { r.category : r \in { move_records[k] : k \in DOMAIN move_records } } :
    \A nm \in { move_records[k].old_path.name : k \in DOMAIN move_records } :
      ( \A f \in fs_files :
          SameFamily(f, c, nm) =>
            \E k \in Landed(c, nm) : move_records[k].new_path = f )
      => \A k \in Landed(c, nm) :
           LET before == Cardinality({ j \in Landed(c, nm) : j < k }) IN
           move_records[k].new_path =
             IF before = 0 THEN PathOf(c, nm)
             ELSE Candidate(PathOf(c, nm), before)

\* C6: a record whose default destination exists and is not the source
\* itself goes to "stem (i)suffix" in the same directory for the least
\* i >= 1 free at that moment; so k+1 sources of one name and category land
\* at foo.txt, foo (1).txt, ..., foo (k).txt in processing order.
C6_CollisionCounter ==
  [][C6_LeastFreeCounter]_vars /\ []C6_InProcessingOrder

\* three sources named f1.txt were moved into documents_misc and landed at
\* f1.txt, f1 (1).txt and f1 (2).txt, in that order
C6_Witness ==
  /\ Len(move_records) = 3
  /\ \A k \in 1..3 :
        /\ move_records[k].status = StatusSuccess
        /\ move_records[k].category = "documents_misc"
  /\ move_records[1].new_path = PathOf("documents_misc", TheName)
  /\ move_records[2].new_path = PathOf("documents_misc", TheName1)
  /\ move_records[3].new_path =
       Candidate(PathOf("documents_misc", TheName), 2)

\* a status that reports a failed creation of the category directory
IsMkdirFailure(status) ==
  status \in { "failed: could not create target directory",
               "failed: could not create target directory: no space left" }
\* how often d occurs in the sequence q
Count(q, d) == Cardinality({ k \in DOMAIN q : q[k] = d })

\* C17: a category whose directory exists under the root, from before the
\* call or from an earlier row, is not in the failure cache, and no record
\* of that category is marked failed for directory creation.
C17_MkdirIdempotent ==
  \A c \in fs_dirs :
     /\ c \notin DOMAIN category_dir_failures
     /\ \A k \in DOMAIN move_records :
           move_records[k].category = c =>
             ~IsMkdirFailure(move_records[k].status)

\* a second apply_plan on the tree the first one organized has returned:
\* the directory of documents_misc was there at its entry, mkdir was called
\* for it again, and its record failed only for the missing source
C17_Witness ==
  /\ ex_runs = 2
  /\ ex_pc = "done"
  /\ "documents_misc" \in ex_tree0.dirs
  /\ PathOf("documents_misc", TheName) \in ex_tree0.files
  /\ Count(mkdir_calls, "documents_misc") >= 1
  /\ \E k \in DOMAIN move_records :
        /\ move_records[k].category = "documents_misc"
        /\ move_records[k].status = StatusNoSource

\* the step that records a row whose category is in the failure cache: the
\* status carries the cached reason, no directory creation and no move is
\* attempted; and the step that enters the loop empties the cache
C19_ShortCircuit ==
  /\ ( /\ ex_pc = "loop"
       /\ Len(move_records') = Len(move_records) + 1
       /\ ExecCategory(ex_df[ex_i].category) \in DOMAIN category_dir_failures )
     => LET c == ExecCategory(ex_df[ex_i].category)
            r == move_records'[Len(move_records')]
        IN /\ r.category = c
           /\ r.status = Failed(category_dir_failures[c])
           /\ r.new_path = PathOf(c, ex_df[ex_i].full_path.name)
           /\ mkdir_calls' = mkdir_calls
           /\ category_dir_failures' = category_dir_failures
           /\ fs_files' = fs_files
           /\ fs_dirs' = fs_dirs
  /\ ( ex_pc = "idle" /\ ex_pc' = "loop" ) =>
       category_dir_failures' = << >> /\ mkdir_calls' = << >>

\* per category in the cache there was one creation attempt; a record
\* failed for directory creation has its category in the cache and carries
\* the cached reason, and so does every later record of that category; the
\* records of the categories outside the cache are not failed for directory
\* creation
C19_OneAttempt ==
  /\ \A c \in DOMAIN category_dir_failures : Count(mkdir_calls, c) = 1
  /\ \A k \in DOMAIN move_records :
        IF move_records[k].category \in DOMAIN category_dir_failures
          THEN \A j \in DOMAIN move_records :
                  ( /\ j <= k
                    /\ move_records[j].category = move_records[k].category
                    /\ IsMkdirFailure(move_records[j].status) )
                  => move_records[k].status =
                       Failed(category_dir_failures[move_records[k].category])
          ELSE ~IsMkdirFailure(move_records[k].status)
  /\ \A c \in DOMAIN category_dir_failures :
        \E k \in DOMAIN move_records :
           /\ move_records[k].category = c
           /\ IsMkdirFailure(move_records[k].status)

\* C19: within one apply_plan run, once creating root/C has failed, every
\* later record of C is marked failed with the cached reason, without
\* another creation attempt and without a move attempt; the records of the
\* other categories are unaffected; the cache starts empty on every call.
C19_FailureCache == [][C19_ShortCircuit]_vars /\ []C19_OneAttempt

\* the second call on one tree has returned: the directory of
\* uncertain_review failed again with "no space left", its later record
\* carries that reason after one attempt, and the record of documents_misc
\* between them was skipped
C19_Witness ==
  /\ ex_runs = 2
  /\ ex_pc = "done"
  /\ Len(move_records) = 3
  /\ move_records[1].category = "uncertain_review"
  /\ move_records[3].category = "uncertain_review"
  /\ move_records[1].status = Failed(MkdirReasonFull)
  /\ move_records[3].status = Failed(MkdirReasonFull)
  /\ move_records[2].category = "documents_misc"
  /\ move_records[2].status = StatusSkipped
  /\ Count(mkdir_calls, "uncertain_review") = 1

\* the step that records a row whose existing source and default destination
\* lead to one location: the record is "skipped: already in target" with the
\* default destination, and the files stay where they are
C20_SkipStep ==
  ( /\ ex_pc = "loop"
    /\ Len(move_records') = Len(move_records) + 1
    /\ Resolve(ex_df[ex_i].full_path) \in fs_files
    /\ Resolve(ex_df[ex_i].full_path) =
         PathOf(ExecCategory(ex_df[ex_i].category),
                ex_df[ex_i].full_path.name) )
  => LET r == move_records'[Len(move_records')] IN
     /\ r.status = StatusSkipped
     /\ r.old_path = ex_df[ex_i].full_path
     /\ r.new_path = PathOf(ExecCategory(ex_df[ex_i].category),
                            ex_df[ex_i].full_path.name)
     /\ fs_files' = fs_files

\* a skipped record names a source that leads to its default destination,
\* and the file is still there
C20_SkippedStays ==
  \A k \in DOMAIN move_records :
     move_records[k].status = StatusSkipped =>
       /\ Resolve(move_records[k].old_path) = move_records[k].new_path
       /\ move_records[k].new_path = DefaultDestination(move_records[k])
       /\ move_records[k].new_path \in fs_files

\* C20: a record whose existing source path and default destination
\* root/category/name resolve to the same location is recorded as "skipped:
\* already in target"; no move is attempted, no collision suffix is
\* generated, and the file remains at its path.
C20_AlreadyInTarget == [][C20_SkipStep]_vars /\ []C20_SkippedStays

\* a file was moved next to a file of its name and took the counter 1, and
\* the record that names that other file through a symbolic link was skipped
C20_Witness ==
  /\ ex_pc = "done"
  /\ \E j, k \in DOMAIN move_records :
        /\ j < k
        /\ move_records[j].status = StatusSuccess
        /\ move_records[j].new_path = PathOf("documents_misc", TheName1)
        /\ move_records[k].status = StatusSkipped
        /\ move_records[k].old_path.dir \in DOMAIN Symlinks
        /\ move_records[k].new_path = PathOf("documents_misc", TheName)
        /\ PathOf("documents_misc", TheName) \in fs_files

\* the step in which apply_plan raises LoggingError: the files stay where
\* the loop left them, and the records are handed to nobody
C26_NoRollback ==
  ( ex_pc = "loop" /\ ex_pc' = "raised" /\ ex_err' = "LoggingError" )
  => /\ fs_files' = fs_files
     /\ fs_dirs \subseteq fs_dirs'
     /\ ex_ret' = NoReturn
     /\ ex_i > Len(ex_df)

\* the calls of write_move_log a validated call of apply_plan has made: none
\* inside the loop, one when it has ended, with the record of every row
C26_OneCall ==
  /\ ( Validated /\ ex_pc = "loop" ) => Len(lg_calls) = ex_runs - 1
  /\ ( Validated /\ ex_pc \in {"done", "raised"} ) =>
       /\ Len(lg_calls) = ex_runs
       /\ lg_calls[ex_runs].records = move_records
       /\ Len(move_records) = Len(ex_df)
       /\ lg_calls[ex_runs].raised <=> ex_err = "LoggingError"
       /\ lg_calls[ex_runs].raised <=> ex_pc = "raised"
  /\ ex_err = "LoggingError" =>
       /\ ex_ret = NoReturn
       /\ \A k \in DOMAIN move_records :
            move_records[k].status = StatusSuccess =>
              /\ move_records[k].new_path \in fs_files
              /\ Resolve(move_records[k].old_path) \notin fs_files

\* C26: a call of apply_plan that passed validation calls write_move_log
\* once, after the last row, with the record of every row; when that call
\* fails apply_plan raises LoggingError, the files moved stay where they
\* were moved to, and nothing is returned.
C26_LogOnceNoRollback == [][C26_NoRollback]_vars /\ []C26_OneCall

\* the log could not be written after a file had been moved: LoggingError,
\* the file is in its category directory and no longer at its source
C26_Witness ==
  /\ ex_pc = "raised"
  /\ ex_err = "LoggingError"
  /\ log_fault = "write"
  /\ Len(move_records) >= 2
  /\ \E k \in DOMAIN move_records :
        /\ move_records[k].status = StatusSuccess
        /\ move_records[k].new_path \in fs_files
        /\ move_records[k].new_path \notin ex_tree0.files

\* the step that appends the record of a successful move: its destination
\* was not there before the step
C28_FreshDestination ==
  ( ex_pc = "loop" /\ Len(move_records') = Len(move_records) + 1
    /\ move_records'[Len(move_records')].status = StatusSuccess )
  => /\ move_records'[Len(move_records')].new_path \notin fs_files
     /\ fs_files' =
          ( fs_files \ { Resolve(move_records'[Len(move_records')].old_path) } )
            \cup { move_records'[Len(move_records')].new_path }

\* no two successful records of the call share a destination
C28_DistinctDestinations ==
  \A j, k \in DOMAIN move_records :
     ( j # k /\ move_records[j].status = StatusSuccess
       /\ move_records[k].status = StatusSuccess )
     => move_records[j].new_path # move_records[k].new_path

\* the files under the root, the log left aside, are as many as at the
\* entry of the call
C28_SameFileCount ==
  ex_pc \in { "loop", "done", "raised" } =>
    Cardinality(fs_files) = Cardinality(ex_tree0.files)

\* C28: with nobody else changing the tree, apply_plan overwrites and
\* deletes no file: a successful move goes to a path that was free just
\* before it, no two successful records of a call share a destination, and
\* the call leaves as many files under the root (the log aside) as it found.
C28_NoOverwriteNoLoss ==
  [][C28_FreshDestination]_vars
    /\ [](C28_DistinctDestinations /\ C28_SameFileCount)

\* the category value of the plan row a record was made from
RawOf(k) == ex_df[k].category

\* C30: for every plan apply_plan accepts, each record's target directory is
\* root_path/<c> with c one of the fixed categories, a missing or empty
\* category value counting as uncertain_review; so every successful move
\* ends directly inside one of the fixed category directories.
C30_TargetInCategorySet ==
  ( ex_pc \in { "loop", "done" } /\ ex_plan = "ok" ) =>
    \A k \in DOMAIN move_records :
       /\ move_records[k].category \in CategorySet
       /\ RawOf(k) \in { None, "" } =>
            move_records[k].category = "uncertain_review"
       /\ move_records[k].status = StatusSuccess =>
            /\ move_records[k].new_path.dir \in CategorySet
            /\ move_records[k].new_path.dir = move_records[k].category
            /\ move_records[k].new_path \in fs_files

(***************************************************************************)
(* Properties of write_move_log.                                           *)
(***************************************************************************)
\* the cells of the row of a record, in the order of the header
CellsOf(r) ==
  << r.file_name, r.old_path, r.new_path, r.category, r.classifier_type,
     r.confidence, r.status >>
\* the file at path holds the header and one row per record, in order
HoldsRecords(path, records) ==
  /\ path \in DOMAIN fs_logs
  /\ fs_logs[path].header =
       << "file_name", "old_path", "new_path", "category",
          "classifier_type", "confidence", "status" >>
  /\ Len(fs_logs[path].rows) = Len(records)
  /\ \A k \in DOMAIN records : fs_logs[path].rows[k] = CellsOf(records[k])

\* C13: when the root is writable, a call of write_move_log with n >= 0
\* records returns the path of a file that holds the header row file_name,
\* old_path, new_path, category, classifier_type, confidence, status and
\* then exactly n rows, in the order of the records.
C13_LogWritten ==
  ( lg_calls # << >> /\ log_fault = "none" ) =>
    LET call == lg_calls[Len(lg_calls)] IN
    /\ ~call.raised
    /\ HoldsRecords(call.path, call.records)

\* a call with no record and a call with two different records, in
\* different seconds, have both left their file
C13_Witness ==
  \E i, j \in DOMAIN lg_calls :
     /\ lg_calls[i].records = << >>
     /\ Len(lg_calls[j].records) = 2
     /\ lg_calls[j].records[1] # lg_calls[j].records[2]
     /\ lg_calls[i].path # lg_calls[j].path
     /\ HoldsRecords(lg_calls[i].path, << >>)
     /\ HoldsRecords(lg_calls[j].path, lg_calls[j].records)

\* C14 as stated: over any sequence of calls on one root, the rows written
\* by a call are never removed or altered by a later call, and calls made
\* at different UTC seconds write to different paths.
C14_AppendOnly ==
  /\ \A i \in DOMAIN lg_calls :
        ~lg_calls[i].raised =>
          HoldsRecords(lg_calls[i].path, lg_calls[i].records)
  /\ \A i, j \in DOMAIN lg_calls :
        Timestamp(lg_calls[i].at) # Timestamp(lg_calls[j].at) =>
          lg_calls[i].path # lg_calls[j].path

\* C14 amended: the rows written by a call are never removed or altered by
\* a call made at a different UTC second; calls made at different UTC
\* seconds write to different paths; calls made within one UTC second write
\* to one path, and the file then holds the rows of the last of them only.
C14_AppendOnlyAcrossSeconds ==
  /\ \A i \in DOMAIN lg_calls :
        ( /\ ~lg_calls[i].raised
          /\ \A j \in DOMAIN lg_calls :
                j > i => Timestamp(lg_calls[j].at) # Timestamp(lg_calls[i].at) )
        => HoldsRecords(lg_calls[i].path, lg_calls[i].records)
  /\ \A i, j \in DOMAIN lg_calls :
        Timestamp(lg_calls[i].at) # Timestamp(lg_calls[j].at) <=>
          lg_calls[i].path # lg_calls[j].path
  /\ \A i, j \in DOMAIN lg_calls :
        ( /\ i < j
          /\ ~lg_calls[j].raised
          /\ Timestamp(lg_calls[i].at) = Timestamp(lg_calls[j].at)
          /\ \A k \in DOMAIN lg_calls :
                k > j => Timestamp(lg_calls[k].at) # Timestamp(lg_calls[j].at) )
        => HoldsRecords(lg_calls[i].path, lg_calls[j].records)

\* two calls within one second, the later replacing the rows of the earlier,
\* and then a call in a later second that left the first file alone
C14_Witness ==
  /\ Len(lg_calls) = 3
  /\ \A k \in 1..3 : ~lg_calls[k].raised
  /\ Timestamp(lg_calls[1].at) = Timestamp(lg_calls[2].at)
  /\ lg_calls[1].at # lg_calls[2].at
  /\ Timestamp(lg_calls[3].at) > Timestamp(lg_calls[2].at)
  /\ Len(lg_calls[1].records) = 2
  /\ Len(lg_calls[2].records) = 1
  /\ HoldsRecords(lg_calls[2].path, lg_calls[2].records)
  /\ HoldsRecords(lg_calls[3].path, lg_calls[3].records)

(***************************************************************************)
(* Properties of the organize command.                                     *)
(***************************************************************************)
\* C8: a run that found no file, a run that applied the plan and a run the
\* user declined end with pairwise different exit codes.
C8_OutcomesDistinguishable ==
  org_pc = "exited" =>
    /\ org_end = "no_files" => org_exit \notin { EXIT_DECLINED, EXIT_APPLIED }
    /\ org_end = "declined" => org_exit \notin { EXIT_NO_FILES, EXIT_APPLIED }
    /\ org_end = "applied" => org_exit \notin { EXIT_NO_FILES, EXIT_DECLINED }

\* C9: in a run of organize with an ambiguous record, once the remote call
\* has failed, classify_files has raised LlmUnavailableError, build_plan and
\* apply_plan are not invoked, and the tree is as it was at the start: no
\* file moved, no directory created, no log written.
C9_RemoteFailureAborts ==
  ( org_pc # "off" /\ cf_resp.kind = "error" ) =>
    /\ cf_rows # {}
    /\ cf_pc = "raised" /\ cf_err = "LlmUnavailableError"
    /\ \A k \in DOMAIN org_calls :
          org_calls[k] \notin { "build_plan", "apply_plan" }
    /\ pl_pc = "off" /\ ex_pc = "off"
    /\ move_records = << >>
    /\ fs_files = org_tree0.files
    /\ fs_dirs = org_tree0.dirs
    /\ fs_logs = << >>
    /\ org_pc = "exited" =>
         org_end = "classify_error" /\ org_exit = EXIT_CLASSIFY_ERROR

\* the command has ended after the remote call failed on a batch of one
\* rule-matched and two ambiguous files
C9_Witness ==
  /\ org_pc = "exited"
  /\ cf_resp.kind = "error"
  /\ Len(org_df) = 3
  /\ Cardinality(cf_rows) = 2

\* the error kinds a user can meet
UserFacingErrors ==
  { "PathNotFoundError", "PathNotDirectoryError", "NoFilesFoundError",
    "MissingApiKeyError", "LlmUnavailableError", "LlmResponseParseError",
    "ClassificationError", "FileMoveError", "LoggingError" }

\* C15: every user-facing error kind derives from OrganizerError, and no
\* OrganizerError raised by a stage of the pipeline leaves the command: each
\* one ends in a message and a typer exit.
C15_OrganizerErrorsCaught ==
  /\ \A e \in UserFacingErrors : IsA(e, "OrganizerError")
  /\ org_pc = "exited" =>
       /\ ~IsA(org_raised, "OrganizerError")
       /\ org_end = "crash" <=> org_raised # "none"

\* C18: when the root directory holds no file, scan_directory raises
\* NoFilesFoundError and the scan command reports it and exits with code 0,
\* in the scan command of cortex_ai/cli and in that of cortex-ai/cli.
C18_EmptyRootSoftExit ==
  ( /\ org_cmd \in { "scan", "scan_simple" }
    /\ org_pc = "exited"
    /\ org_root = "dir"
    /\ org_tree0.files = {} )
  => /\ org_calls = << "scan_directory" >>
     /\ org_end = "no_files"
     /\ org_raised = "none"
     /\ org_exit = 0

\* the answers that are y or yes once trimmed and lowercased
SaysYes(a) == a \in { "y", " YES " }
\* the stages of organize up to the call of apply_plan
StagesBeforeApply ==
  << "scan_directory", "classify_files", "build_plan", "print_plan_summary" >>
\* nothing under the root has changed since the command started
TreeUntouched ==
  /\ fs_files = org_tree0.files
  /\ fs_dirs = org_tree0.dirs
  /\ fs_logs = << >>
  /\ lg_calls = << >>
  /\ mkdir_calls = << >>
  /\ move_records = << >>

\* C27: organize calls apply_plan only after scan_directory, classify_files
\* and build_plan have returned, the summary of the plan has been printed
\* and the answer read at the prompt is y or yes, trimmed and in any case;
\* after any other answer the command ends with no directory created, no
\* file moved and no log written; and until apply_plan is called the tree
\* is as the command found it.
C27_ApplyOnlyAfterYes ==
  org_cmd = "organize" =>
    /\ ex_pc # "off" =>
         /\ org_calls = Append(StagesBeforeApply, "apply_plan")
         /\ org_df # << >>
         /\ cf_pc = "done" /\ pl_pc = "done"
         /\ ex_df = pl_plan.df
         /\ SaysYes(org_answer)
    /\ ( org_pc \in { "apply", "exited" } /\ org_calls = StagesBeforeApply )
         => /\ ~SaysYes(org_answer)
            /\ org_end = "declined"
    /\ ( org_pc = "exited" /\ Len(org_calls) >= 4 /\ ~SaysYes(org_answer) )
         => /\ org_end = "declined"
            /\ ex_pc = "off"
            /\ TreeUntouched
    /\ ( ex_pc = "off" /\ org_root = "dir" ) => TreeUntouched

\* the user answered with an empty line to a plan of three files: the
\* command ended without a call of apply_plan
C27_Witness ==
  /\ org_cmd = "organize"
  /\ org_end = "declined"
  /\ org_answer = ""
  /\ pl_plan.total_files = 3
  /\ org_calls = StagesBeforeApply

\* the user answered " YES " and apply_plan moved a file
C27_WitnessYes ==
  /\ org_cmd = "organize"
  /\ org_end = "applied"
  /\ org_answer = " YES "
  /\ \E k \in DOMAIN move_records : move_records[k].status = StatusSuccess

(***************************************************************************)
(* Properties of the extension scan_directory derives.                     *)
(***************************************************************************)
\* the row classify_files makes, before the remote call, of the file name
ScannedAndRuled(name) ==
  Prepared(<< ScanNamedRow(PathOf("inbox", name)) >>, BaseColumns)[1]

\* the extensions scan_directory derives for the file names of the model
ScannedExtensions ==
  { ScanNamedRow(PathOf("inbox", name)).extension : name \in ScanNames }

\* some file name is scanned with the extension key and takes the category
\* of that key by rule
KeyReachable(key) ==
  \E name \in ScanNames :
     /\ ScanNamedRow(PathOf("inbox", name)).extension = key
     /\ ScannedAndRuled(name).classifier_type = "rule"
     /\ ScannedAndRuled(name).category = DEFAULT_EXTENSION_MAP[key]

\* C29: every key of DEFAULT_EXTENSION_MAP is the extension scan_directory
\* derives for some file name, so every rule of the table, ".tar.gz" and
\* ".ds_store" included, can classify a scanned file by rule.
C29_EveryKeyReachable ==
  /\ \A i \in DOMAIN org_df : org_df[i].extension \in ScannedExtensions
  /\ \A key \in DOMAIN DEFAULT_EXTENSION_MAP : KeyReachable(key)

====
